---------------------------- MODULE Spec2Model ----------------------------
(***************************************************************************)
(* A model of the tag analysis of claude-knowledge-converter:              *)
(*   src/src/tag_analyzer.py   TagAnalyzer (registry, filter, ranking,     *)
(*                             colour schemes, RGB packing)                *)
(*   src/src/analyze_tags.py   analyze_all_tags (parallel tag counting)    *)
(*                                                                         *)
(* Text is modelled as a sequence of one-character strings, so that the    *)
(* prefix tests, lower(), the hashtag pattern and the file-name pattern    *)
(* are computed as the code computes them.  A Counter / dict is a sequence *)
(* of [key, n] records in insertion order (Python dicts keep it, and the   *)
(* stable sort of generate_color_groups depends on it).                    *)
(***************************************************************************)
EXTENDS Integers, Sequences, FiniteSets, TLC

(***************************************************************************)
(* Bounds of the model                                                     *)
(***************************************************************************)
\* add_tag calls made on one registry
MaxAdds == 3
\* largest min_count handed to get_filtered_tags
MaxMinCount == 3
\* add_tag calls made after the scan, before the colour groups are generated
MaxGroupAdds == 1
\* largest water level handed to generate_color_groups
MaxWaterLevel == 3
\* a slot budget below the default, as a caller may pass in max_groups
SmallBudget == 2
\* most markdown files analyze_all_tags finds
MaxFiles == 5
\* largest num_processes handed to analyze_all_tags
MaxProcesses == 3
\* largest total handed to _get_color_for_index
MaxTotal == 12
\* the step between the channel values handed to _rgb_to_int
ChannelStep == 17
\* rejected entries of one dialogue that are counted
MaxRejected == 2

(***************************************************************************)
(* Characters and text                                                     *)
(***************************************************************************)
LowerLetters ==
  <<"a","b","c","d","e","f","g","h","i","j","k","l","m",
    "n","o","p","q","r","s","t","u","v","w","x","y","z">>

UpperLetters ==
  <<"A","B","C","D","E","F","G","H","I","J","K","L","M",
    "N","O","P","Q","R","S","T","U","V","W","X","Y","Z">>

DigitChars == <<"0","1","2","3","4","5","6","7","8","9">>

\* the characters of the model in ascending code point order
AsciiOrder ==
  <<" ", "#", "-", ".">> \o DigitChars \o <<":">> \o UpperLetters
    \o <<"_">> \o LowerLetters

Range(s) == { s[i] : i \in 1..Len(s) }

Ord(c) == CHOOSE i \in 1..Len(AsciiOrder) : AsciiOrder[i] = c

LetterSet == Range(LowerLetters) \cup Range(UpperLetters)
UpperSet == Range(UpperLetters)
DigitSet == Range(DigitChars)

IsLetter(c) == c \in LetterSet

IsDigitChar(c) == c \in DigitSet

\* str.lower() on one character
LowerChar(c) ==
  IF c \in UpperSet
    THEN LowerLetters[CHOOSE i \in 1..26 : UpperLetters[i] = c]
    ELSE c

\* str.lower()
Lower(s) == [i \in 1..Len(s) |-> LowerChar(s[i])]

\* str.startswith(prefix)
StartsWith(s, prefix) ==
  /\ Len(s) >= Len(prefix)
  /\ SubSeq(s, 1, Len(prefix)) = prefix

\* str.isdigit(): non-empty and every character a digit
IsDigit(s) == Len(s) > 0 /\ \A i \in 1..Len(s) : IsDigitChar(s[i])

\* s < t in Python's string order (code point by code point, prefix first)
RECURSIVE StrLess(_, _)
StrLess(s, t) ==
  IF Len(t) = 0 THEN FALSE
  ELSE IF Len(s) = 0 THEN TRUE
  ELSE IF s[1] # t[1] THEN Ord(s[1]) < Ord(t[1])
  ELSE StrLess(Tail(s), Tail(t))

(***************************************************************************)
(* collections.Counter / dict, in insertion order                          *)
(***************************************************************************)
Keys(c) == { c[i].key : i \in 1..Len(c) }

\* c[k] of a Counter: 0 for a missing key
Count(c, k) ==
  IF k \in Keys(c)
    THEN c[CHOOSE i \in 1..Len(c) : c[i].key = k].n
    ELSE 0

\* c[k] = m where the code has c[k] += m
CounterAddReplacing(c, k, m) ==
  IF k \in Keys(c)
    THEN [c EXCEPT ![CHOOSE i \in 1..Len(c) : c[i].key = k].n = m]
    ELSE Append(c, [key |-> k, n |-> m])

\* c[k] += m
CounterAdd(c, k, m) ==
  IF k \in Keys(c)
    THEN [c EXCEPT ![CHOOSE i \in 1..Len(c) : c[i].key = k].n = @ + m]
    ELSE Append(c, [key |-> k, n |-> m])

\* the k-th smallest member of a set of integers
Nth(S, k) == CHOOSE i \in S : Cardinality({ j \in S : j < i }) = k - 1

\* how often k occurs in the list ks
Occurrences(ks, k) == Cardinality({ i \in 1..Len(ks) : ks[i] = k })

\* the places of ks where a key that c does not hold occurs first
NewKeyPlaces(c, ks) ==
  { i \in 1..Len(ks) :
      ks[i] \notin Keys(c) /\ \A j \in 1..(i - 1) : ks[j] # ks[i] }

\* Counter.update(iterable of keys), that is c[k] += 1 for each k of ks in
\* turn: the keys of c keep their places and gain their occurrences, the
\* new keys follow in the order they occur first
CounterUpdateKeys(c, ks) ==
  LET places == NewKeyPlaces(c, ks) IN
  [i \in 1..Len(c) |->
     [key |-> c[i].key, n |-> c[i].n + Occurrences(ks, c[i].key)]]
  \o
  [r \in 1..Cardinality(places) |->
     [key |-> ks[Nth(places, r)], n |-> Occurrences(ks, ks[Nth(places, r)])]]

\* Counter.update(other Counter): c[k] += n for each item of other in turn
RECURSIVE CounterUpdate(_, _)
CounterUpdate(c, other) ==
  IF other = << >> THEN c
  ELSE CounterUpdate(CounterAdd(c, Head(other).key, Head(other).n), Tail(other))

\* the lists of ss[lo..hi] joined in order (by halves)
RECURSIVE Concat(_, _, _)
Concat(ss, lo, hi) ==
  IF lo > hi THEN << >>
  ELSE IF lo = hi THEN ss[lo]
  ELSE Concat(ss, lo, (lo + hi) \div 2) \o Concat(ss, ((lo + hi) \div 2) + 1, hi)

Flatten(ss) == Concat(ss, 1, Len(ss))

\* sum(d.values()), of the entries lo..hi (summed by halves, which keeps
\* the evaluation shallow)
RECURSIVE SumRange(_, _, _)
SumRange(c, lo, hi) ==
  IF lo > hi THEN 0
  ELSE IF lo = hi THEN c[lo].n
  ELSE SumRange(c, lo, (lo + hi) \div 2) + SumRange(c, ((lo + hi) \div 2) + 1, hi)

SumValues(c) == SumRange(c, 1, Len(c))

(***************************************************************************)
(* The state                                                               *)
(***************************************************************************)
VARIABLES
  tag_counts,         \* TagAnalyzer.tag_counts: Counter, in insertion order
  conversation_tags,  \* TagAnalyzer.conversation_tags: set
  keyword_tags,       \* TagAnalyzer.keyword_tags: set
  exclusions,         \* TagAnalyzer.exclusions: set, loaded at construction
  file_patterns,      \* TagAnalyzer.file_patterns: Counter
  n_adds,             \* add_tag calls made so far (bounds the model)
  ret,                \* the call that returned last, with what it returned
  analysis,           \* the locals of analyze_all_tags and the state of its pool
  disk,               \* the template files and the .obsidian directory
  dialog              \* the locals of interactive_water_level_adjustment

registry == <<tag_counts, conversation_tags, keyword_tags, exclusions,
              file_patterns>>

\* Python's None, for a water level that was not supplied
None == -1

\* the text constants of the code
ConvPrefix == <<"c","o","n","v","-">>
Hash == <<"#">>

(***************************************************************************)
(* TagAnalyzer._load_exclusions                                            *)
(***************************************************************************)
\* the whitespace of the model: blank, tab and the newline that ends a line
IsSpace(c) == c \in {" ", "\t", "\n"}

\* str.strip()
RECURSIVE LStrip(_)
LStrip(s) == IF s # << >> /\ IsSpace(Head(s)) THEN LStrip(Tail(s)) ELSE s

RECURSIVE RStrip(_)
RStrip(s) ==
  IF s # << >> /\ IsSpace(s[Len(s)]) THEN RStrip(SubSeq(s, 1, Len(s) - 1)) ELSE s

\* strip() that leaves the end of the line alone
StripLeftOnly(s) == LStrip(s)

Strip(s) == RStrip(LStrip(s))

\* file: [exists |-> BOOLEAN, lines |-> sequence of lines]
load_exclusions(file) ==
  IF file.exists
    THEN { Lower(Strip(file.lines[i])) :
             i \in { j \in 1..Len(file.lines) :
                       /\ Strip(file.lines[j]) # << >>
                       /\ ~StartsWith(Strip(file.lines[j]), Hash) } }
    ELSE {}

(***************************************************************************)
(* TagAnalyzer.add_tag                                                     *)
(***************************************************************************)
\* tag[1:] when the tag starts with '#'
StripHash(tag) == IF StartsWith(tag, Hash) THEN Tail(tag) ELSE tag

add_tag(tag, tag_type) ==
  LET t == StripHash(tag) IN
  /\ IF tag_type = "conversation"
       THEN /\ conversation_tags' = conversation_tags \cup {t}
            /\ UNCHANGED keyword_tags
       ELSE /\ keyword_tags' = keyword_tags \cup {t}
            /\ UNCHANGED conversation_tags
  /\ tag_counts' = CounterAdd(tag_counts, t, 1)
  /\ UNCHANGED <<exclusions, file_patterns>>

(***************************************************************************)
(* TagAnalyzer.get_filtered_tags                                           *)
(***************************************************************************)
\* the exclusion test without its keyword-tag condition
IsExcludedWhateverOrigin(tag) == Lower(tag) \in exclusions

\* the exclusion test of line 62
IsExcluded(tag) == tag \in keyword_tags /\ Lower(tag) \in exclusions

get_filtered_tags(min_count) ==
  LET Kept(e) == ~IsExcluded(e.key) /\ ~(e.n < min_count)
  IN  SelectSeq(tag_counts, Kept)

\* the default of the min_count parameter
DefaultMinCount == 2

(***************************************************************************)
(* TagAnalyzer._extract_file_pattern                                       *)
(***************************************************************************)
\* the last index of character c in s, 0 when s has none
LastIndexOf(s, c) ==
  IF c \in Range(s)
    THEN CHOOSE i \in 1..Len(s) :
           s[i] = c /\ \A j \in (i + 1)..Len(s) : s[j] # c
    ELSE 0

\* filename.rsplit('.', 1)[0] if '.' in filename else filename
BaseName(filename) ==
  IF "." \in Range(filename)
    THEN SubSeq(filename, 1, LastIndexOf(filename, ".") - 1)
    ELSE filename

IsDelimiter(c) == c \in {"-", "_"} \/ IsSpace(c)

\* re.split(r'[-_\s]+', base): the pieces between runs of delimiters, an
\* empty piece where the text starts or ends with a run
RECURSIVE SplitFrom(_, _, _)
SplitFrom(s, i, word) ==
  IF i > Len(s) THEN <<word>>
  ELSE IF IsDelimiter(s[i])
    THEN IF i > 1 /\ IsDelimiter(s[i - 1])
           THEN SplitFrom(s, i + 1, word)
           ELSE <<word>> \o SplitFrom(s, i + 1, << >>)
    ELSE SplitFrom(s, i + 1, Append(word, s[i]))

SplitWords(base) == SplitFrom(base, 1, << >>)

StopWords ==
  { <<"t","h","e">>, <<"a">>, <<"a","n">>, <<"o","f">>, <<"t","o">>,
    <<"i","n">>, <<"f","o","r">>, <<"a","n","d">>, <<"o","r">>,
    <<"b","u","t">> }

\* the shortest word that is kept
MinWordLen == 3

\* the loop skipping words of MinWordLen characters too
IsMeaningfulOverThree(word) ==
  /\ ~IsDigit(word)
  /\ Lower(word) \notin StopWords
  /\ ~(Len(word) <= MinWordLen)

\* the loop of lines 802-816
IsMeaningful(word) ==
  /\ ~IsDigit(word)
  /\ Lower(word) \notin StopWords
  /\ ~(Len(word) < MinWordLen)

\* the first meaningful word; << >> stands for the None of line 819
extract_file_pattern(filename) ==
  LET words == SplitWords(BaseName(filename))
      good  == { i \in 1..Len(words) : IsMeaningful(words[i]) }
  IN  IF good = {} THEN << >>
      ELSE words[CHOOSE i \in good : \A j \in good : i <= j]

(***************************************************************************)
(* The hashtag pattern of line 837: a '#', a letter, then any run of       *)
(* letters, digits, hyphens and underscores                               *)
(***************************************************************************)
IsTagChar(c) == IsLetter(c) \/ IsDigitChar(c) \/ c \in {"-", "_"}

\* the end of the longest run of tag characters that starts at i
RunEnd(s, i) ==
  CHOOSE j \in i..Len(s) :
    /\ \A k \in (i + 1)..j : IsTagChar(s[k])
    /\ (j = Len(s) \/ ~IsTagChar(s[j + 1]))

\* where a match starts: a '#' followed by a letter.  A '#' is no tag
\* character, so no match swallows the start of another one
MatchStarts(s) ==
  { i \in 1..Len(s) : s[i] = "#" /\ i + 1 <= Len(s) /\ IsLetter(s[i + 1]) }

\* tag_pattern.findall(content): the groups of the matches, left to right
findall(content) ==
  LET starts == MatchStarts(content) IN
  [k \in 1..Cardinality(starts) |->
     LET i == Nth(starts, k) IN SubSeq(content, i + 1, RunEnd(content, i + 1))]

(***************************************************************************)
(* Inputs: exclusion files, tags, corpora                                  *)
(***************************************************************************)
Api == <<"a","p","i">>
ApiUpper == <<"A","P","I">>
Db == <<"d","b">>
ConvA == ConvPrefix \o <<"a">>
Blank == <<" ">>
Md == <<".","m","d">>

\* the exclusions file: missing, or with a comment, an entry and a blank line
ExclusionFiles ==
  { [exists |-> FALSE, lines |-> << >>],
    [exists |-> TRUE,
     lines  |-> << <<"#"," ","s","t","o","p">>, Blank \o ApiUpper \o Blank,
                   << >>, Blank >>] }

\* the tags handed to add_tag
TagInputs == { Hash \o Api, Api, ApiUpper, ConvA }

TagTypes == { "conversation", "keyword" }

\* api-notes.md:  "#api #conv-a #db"
NotesFile ==
  [name     |-> Api \o <<"-","n","o","t","e","s">> \o Md,
   content  |-> Hash \o Api \o Blank \o Hash \o ConvA \o Blank \o Hash \o Db,
   readable |-> TRUE]

\* 01_the_db.md:  "#db #api #1 # #API#api"
DbFile ==
  [name     |-> <<"0","1","_","t","h","e","_">> \o Db \o Md,
   content  |-> Hash \o Db \o Blank \o Hash \o Api \o Blank \o <<"#","1">>
                  \o Blank \o Hash \o Blank \o Hash \o ApiUpper \o Hash \o Api,
   readable |-> TRUE]

\* api_2.md, which cannot be read
LockedFile ==
  [name     |-> Api \o <<"_","2">> \o Md,
   content  |-> Hash \o Api,
   readable |-> FALSE]

\* zulu-alfa.md:  "#zulu #alfa #zulu #alfa", two tags of one count and one
\* shape, the later in the alphabet first
TiesFile ==
  [name     |-> <<"z","u","l","u","-","a","l","f","a">> \o Md,
   content  |-> <<"#","z","u","l","u"," ","#","a","l","f","a"," ",
                  "#","z","u","l","u"," ","#","a","l","f","a">>,
   readable |-> TRUE]

\* s written n times over
Repeat(s, n) == [i \in 1..(n * Len(s)) |-> s[((i - 1) % Len(s)) + 1]]

Python == <<"p","y","t","h","o","n">>
Cli == <<"c","l","i">>
Ex == <<"x">>

\* python-cli.md: "#python " 42 times, "#cli " 3 times, "#x" once
CountsFile ==
  [name     |-> Python \o <<"-">> \o Cli \o Md,
   content  |-> Repeat(Hash \o Python \o <<" ">>, 42)
                  \o Repeat(Hash \o Cli \o <<" ">>, 3) \o Hash \o Ex,
   readable |-> TRUE]

\* the corpora scanned on a registry that add_tag also feeds
Corpora ==
  { << >>, <<NotesFile, DbFile>>, <<DbFile, NotesFile>>,
    <<NotesFile, LockedFile, DbFile, NotesFile>>, <<CountsFile>> }

\* two and three decimal digits
Digits2(k) == <<DigitChars[((k \div 10) % 10) + 1], DigitChars[(k % 10) + 1]>>
Digits3(k) == <<DigitChars[((k \div 100) % 10) + 1]>> \o Digits2(k)

\* the i-th tag of a generated corpus: conv-NN, kwNN, tNN or longtopicNN
TagName(i) ==
  CASE i % 4 = 0 -> ConvPrefix \o Digits2(i)
    [] i % 4 = 1 -> <<"k","w">> \o Digits2(i)
    [] i % 4 = 2 -> <<"t">> \o Digits2(i)
    [] OTHER     -> <<"l","o","n","g","t","o","p","i","c">> \o Digits2(i)

\* the number of files the i-th tag occurs in
TagFiles(i) == 2 + (i % 3)

\* the j-th file pattern: faa, fab, ...
PatternName(j) ==
  <<"f", LowerLetters[((j \div 26) % 26) + 1], LowerLetters[(j % 26) + 1]>>

\* the text of file k: "#tag " for each of the tags lo..hi that occur in it
RECURSIVE TagsText(_, _, _)
TagsText(lo, hi, k) ==
  IF lo > hi THEN << >>
  ELSE IF lo = hi
    THEN (IF k <= TagFiles(lo) THEN Hash \o TagName(lo) \o Blank ELSE << >>)
  ELSE TagsText(lo, (lo + hi) \div 2, k) \o TagsText(((lo + hi) \div 2) + 1, hi, k)

\* a corpus of nFiles files with nTags tags, and nPatterns file patterns
\* spread evenly over the file names
GenFile(k, nTags, nPatterns) ==
  [name     |-> (IF nPatterns > 0 THEN PatternName(k % nPatterns) \o <<"_">>
                                  ELSE << >>) \o Digits3(k) \o Md,
   content  |-> TagsText(1, nTags, k),
   readable |-> TRUE]

GenCorpus(nTags, nPatterns, nFiles) ==
  [k \in 1..nFiles |-> GenFile(k, nTags, nPatterns)]

\* the corpora behind the colour groups: none, the hand-written ones, a
\* small one, 40 tags with 10 patterns, and more labels than slots in
\* both spaces
GroupCorpora ==
  { << >>, <<NotesFile, DbFile>>, <<DbFile, TiesFile, NotesFile>>,
    GenCorpus(3, 2, 5), GenCorpus(40, 10, 20), GenCorpus(62, 62, 62) }

\* the k-th markdown file base_path.rglob finds for analyze_all_tags; the
\* fourth cannot be read
AnalyzeFile(k) ==
  [name     |-> <<"n","o","t","e">> \o Digits2(k) \o Md,
   content  |-> CASE k % 3 = 1 -> NotesFile.content
                  [] k % 3 = 2 -> DbFile.content
                  [] OTHER     -> TiesFile.content,
   readable |-> k # 4]

\* list(base_path.rglob('*.md')) of a directory with n files
FoundFiles(n) == [k \in 1..n |-> AnalyzeFile(k)]

\* the same file when open() raises on it
Locked(f) == [f EXCEPT !.readable = FALSE]

\* three files in the order p, those at the places of locked unreadable
MixedCorpus(p, locked) ==
  LET files == <<NotesFile, DbFile, TiesFile>> IN
  [i \in 1..3 |-> IF i \in locked THEN Locked(files[p[i]]) ELSE files[p[i]]]

\* db-log.md: "#db " n times
BusyFile(n) ==
  [name     |-> Db \o <<"-","l","o","g">> \o Md,
   content  |-> Repeat(Hash \o Db \o Blank, n),
   readable |-> TRUE]

\* the corpora calculate_water_level is applied to
WaterCorpora ==
  { << >>, <<NotesFile, DbFile>>, <<DbFile, TiesFile, NotesFile>>,
    <<CountsFile>>, GenCorpus(9, 2, 5), GenCorpus(10, 2, 5),
    GenCorpus(12, 2, 5), GenCorpus(12, 2, 5) \o <<BusyFile(20)>>,
    GenCorpus(12, 2, 5) \o <<BusyFile(30)>>,
    GenCorpus(12, 2, 5) \o <<BusyFile(31)>>,
    GenCorpus(12, 2, 5) \o <<CountsFile>> }

\* file names for _extract_file_pattern: stop words in both cases, numbers,
\* short words, runs of delimiters, a leading delimiter, two dots, no dot
PatternNames ==
  { <<"t","h","e","-","2","0","2","4","_","r","e","p","o","r","t",".","m","d">>,
    <<"a",".","b",".","m","d">>,
    <<"T","h","e","_","A","n","d","_","z","u","l","u",".","m","d">>,
    <<"n","o","t","e","s">>,
    <<"_","d","b","-","N","o","t","e","s",".","m","d">>,
    <<"1","2","-","3","4",".","m","d">>,
    <<"a","b"," ","c","d",".","t","x","t">>,
    <<"x","-","-","y","_","_","z","e","d"," ","9",".","m","d">>,
    <<".","m","d">>,
    <<"a","r","c","h","i","v","e",".","t","a","r",".","g","z">>,
    <<"1","a","2","-","b",".","m","d">>,
    <<"F","O","R","\t","o","f","_","i","n",".","m","d">> }

\* an empty markdown file of that name
NamedFile(name) == [name |-> name, content |-> << >>, readable |-> TRUE]

\* the files a scan for patterns finds
MaxNamed == 2

NamedFiles == { NamedFile(name) : name \in PatternNames } \cup {NotesFile, DbFile}

RECURSIVE NamedCorpora(_)
NamedCorpora(n) ==
  IF n = 0 THEN { << >> }
  ELSE LET shorter == NamedCorpora(n - 1) IN
       shorter \cup { Append(c, f) : c \in { x \in shorter : Len(x) = n - 1 },
                                     f \in NamedFiles }

\* every file of every corpus
CorpusFiles ==
  UNION { Range(c) : c \in Corpora \cup GroupCorpora \cup WaterCorpora
                            \cup {FoundFiles(MaxFiles)} }
    \cup NamedFiles
    \cup { Locked(f) : f \in {NotesFile, DbFile, TiesFile} }

\* what lines 845-846 and 852-856 draw from a file: its pattern and its tags
Extracted ==
  [f \in CorpusFiles |->
     [pattern |-> extract_file_pattern(f.name), tags |-> findall(f.content)]]

(***************************************************************************)
(* TagAnalyzer.scan_markdown_files_for_tags                                *)
(*   a corpus is the list md_files; a file is                              *)
(*   [name |-> text, content |-> text, readable |-> BOOLEAN]               *)
(***************************************************************************)
\* what lines 826-830 leave
ResetTables ==
  [tag_counts |-> << >>, conversation_tags |-> {}, keyword_tags |-> {},
   file_patterns |-> << >>]

\* the tables as they stand
CurrentTables ==
  [tag_counts |-> tag_counts, conversation_tags |-> conversation_tags,
   keyword_tags |-> keyword_tags, file_patterns |-> file_patterns]

\* lines 858-865 for the tags found, in order: each goes to one of the two
\* sets by its prefix and is counted
RecordTags(t, tags) ==
  LET conv == { i \in 1..Len(tags) : StartsWith(tags[i], ConvPrefix) } IN
  [t EXCEPT
     !.conversation_tags = @ \cup { tags[i] : i \in conv },
     !.keyword_tags = @ \cup { tags[i] : i \in (1..Len(tags)) \ conv },
     !.tag_counts = CounterUpdateKeys(@, tags)]

\* lines 844-849: the file pattern is counted before the file is opened.
\* The patterns the files md_files add, in order
PatternsOf(md_files) ==
  Flatten([i \in 1..Len(md_files) |->
             IF Extracted[md_files[i]].pattern # << >>
               THEN <<Extracted[md_files[i]].pattern>>
               ELSE << >>])

\* the tags when the first unreadable file ends the loop
TagsOfUntilUnreadable(md_files) ==
  Flatten([i \in 1..Len(md_files) |->
             IF \A j \in 1..i : md_files[j].readable
               THEN Extracted[md_files[i]].tags
               ELSE << >>])

\* lines 851-856: open() raises on an unreadable file, and the except
\* clause of line 867 goes on to the next file.  The tags the files yield
TagsOf(md_files) ==
  Flatten([i \in 1..Len(md_files) |->
             IF md_files[i].readable
               THEN Extracted[md_files[i]].tags
               ELSE << >>])

\* the loop of lines 839-868 over md_files, from the tables t
ScanFiles(t, md_files) ==
  LET counted == RecordTags(t, TagsOf(md_files)) IN
  [counted EXCEPT
     !.file_patterns = CounterUpdateKeys(@, PatternsOf(md_files))]

\* ScanStart without lines 826-828: the tags that add_tag counted stay
ScanStartKeepsTags(t) == [t EXCEPT !.file_patterns = << >>]

\* ScanStart without line 829: the file patterns are not cleared
ScanStartKeepsPatterns(t) == [ResetTables EXCEPT !.file_patterns = t.file_patterns]

\* the tables the scan starts from: the reset of lines 826-830
ScanStart(t) == ResetTables

\* the tables after a scan of md_files that starts from tables t
ScanTables(t, md_files) == ScanFiles(ScanStart(t), md_files)

\* a scan whose reset clears the exclusion set with the tables
ScanClearingExclusions(md_files) ==
  LET t == ScanTables(CurrentTables, md_files) IN
  /\ tag_counts' = t.tag_counts
  /\ conversation_tags' = t.conversation_tags
  /\ keyword_tags' = t.keyword_tags
  /\ file_patterns' = t.file_patterns
  /\ exclusions' = {}

scan_markdown_files_for_tags(md_files) ==
  LET t == ScanTables(CurrentTables, md_files) IN
  /\ tag_counts' = t.tag_counts
  /\ conversation_tags' = t.conversation_tags
  /\ keyword_tags' = t.keyword_tags
  /\ file_patterns' = t.file_patterns
  /\ UNCHANGED exclusions

(***************************************************************************)
(* Arithmetic of the colour schemes.  The code computes in floating point; *)
(* the model computes the same expressions exactly, on fractions: a        *)
(* position t is [n, d] for n / d, and int() truncates toward zero.        *)
(***************************************************************************)
\* int(a / b), for b > 0
Trunc(a, b) == IF a >= 0 THEN a \div b ELSE -((-a) \div b)

\* int(c0 + c1 * x) for the fraction x
Affine(c0, c1, x) == Trunc(c0 * x.d + c1 * x.n, x.d)

\* min(255, max(0, c)) of lines 301 and 308
Clamp(c) == IF c < 0 THEN 0 ELSE IF c > 255 THEN 255 ELSE c

\* t = index / total, which never reaches 1
PositionByTotal(index, total) ==
  IF total > 1 THEN [n |-> index, d |-> total] ELSE [n |-> 0, d |-> 1]

\* line 268: t = index / (total - 1) if total > 1 else 0
Position(index, total) ==
  IF total > 1 THEN [n |-> index, d |-> total - 1] ELSE [n |-> 0, d |-> 1]

\* (t - a/10) / (b/10), the rescaling of a band that starts at a/10 and is
\* b/10 wide
Band(t, a, b) == [n |-> 10 * t.n - a * t.d, d |-> b * t.d]

\* t < a / 100
Below(t, a) == 100 * t.n < a * t.d

(***************************************************************************)
(* TagAnalyzer._hsl_to_rgb, with colorsys.hls_to_rgb; s and l are in       *)
(* hundredths, the hue a fraction                                          *)
(***************************************************************************)
\* colorsys._v(m1, m2, hue) * 255 truncated; m1 and m2 in hundredths and
\* x6 the numerator of 6 * hue over h.d
HlsValue(m1, m2, x6, d) ==
  LET x == (x6 + 6 * d) % (6 * d) IN
  IF x < d THEN Trunc((m1 * d + (m2 - m1) * x) * 255, 100 * d)
  ELSE IF x < 3 * d THEN Trunc(m2 * 255, 100)
  ELSE IF x < 4 * d THEN Trunc((m1 * d + (m2 - m1) * (4 * d - x)) * 255, 100 * d)
  ELSE Trunc(m1 * 255, 100)

hsl_to_rgb(h, s, l) ==
  IF s = 0 THEN <<Trunc(l * 255, 100), Trunc(l * 255, 100), Trunc(l * 255, 100)>>
  ELSE
    LET m2 == IF l <= 50 THEN (l * (100 + s)) \div 100
                         ELSE l + s - (l * s) \div 100
        m1 == 2 * l - m2
    IN  << HlsValue(m1, m2, 6 * h.n + 2 * h.d, h.d),
           HlsValue(m1, m2, 6 * h.n, h.d),
           HlsValue(m1, m2, 6 * h.n - 2 * h.d, h.d) >>

\* the golden ratio step 0.618033988749895 of line 272, in millionths
GoldenMillionths == 618034
\* (index * 0.618033988749895) % 1.0, kept to four decimal places
RainbowHue(index) ==
  [n |-> ((index * GoldenMillionths) % 1000000) \div 100, d |-> 10000]

\* saturation and lightness of the hue schemes, in hundredths
Saturation == 70
Lightness == 50

(***************************************************************************)
(* TagAnalyzer._get_color_for_index, scheme by scheme                      *)
(***************************************************************************)
Rainbow(index) == hsl_to_rgb(RainbowHue(index), Saturation, Lightness)

Heatmap(t) ==
  IF Below(t, 33) THEN <<Trunc(765 * t.n, t.d), 0, 0>>
  ELSE IF Below(t, 66)
    THEN <<255, Trunc((100 * t.n - 33 * t.d) * 765, 100 * t.d), 0>>
  ELSE <<255, 255, Trunc((100 * t.n - 66 * t.d) * 765, 100 * t.d)>>

\* int(255 * (c0 + t * (c1 + t * (c2 + t * c3)))), coefficients in thousandths
Cubic(c0, c1, c2, c3, t) ==
  Trunc(255 * (c0 * t.d * t.d * t.d + c1 * t.n * t.d * t.d
               + c2 * t.n * t.n * t.d + c3 * t.n * t.n * t.n),
        1000 * t.d * t.d * t.d)

Viridis(t) ==
  << Clamp(Cubic(267, 4, 329, 400, t)),
     Clamp(Cubic(4, 704, 192, 100, t)),
     Clamp(Cubic(329, 456, -785, 1000, t)) >>

\* int(255 * (c0 + t * (c1 + t * c2))), coefficients in hundredths
Quadratic(c0, c1, c2, t) ==
  Trunc(255 * (c0 * t.d * t.d + c1 * t.n * t.d + c2 * t.n * t.n),
        100 * t.d * t.d)

Plasma(t) ==
  << Clamp(Quadratic(5, 235, -140, t)),
     Clamp(Quadratic(3, 7, 90, t)),
     Clamp(Quadratic(53, 44, -97, t)) >>

CoolWarm(t) ==
  IF Below(t, 50)
    THEN LET t2 == [n |-> 2 * t.n, d |-> t.d]
         IN  <<Affine(0, 255, t2), Affine(0, 255, t2), 255>>
    ELSE LET t2 == Band(t, 5, 5)
             u  == [n |-> t2.d - t2.n, d |-> t2.d]
         IN  <<255, Affine(0, 255, u), Affine(0, 255, u)>>

Cool(t) ==
  IF Below(t, 50)
    THEN LET t2 == [n |-> 2 * t.n, d |-> t.d]
         IN  <<0, Affine(0, 128, t2), Affine(255, -127, t2)>>
    ELSE LET t2 == Band(t, 5, 5)
         IN  <<Affine(0, 128, t2), Affine(128, 127, t2), Affine(128, -128, t2)>>

Warm(t) ==
  IF Below(t, 50)
    THEN LET t2 == [n |-> 2 * t.n, d |-> t.d]
         IN  <<Affine(128, 127, t2), Affine(0, 165, t2), 0>>
    ELSE LET t2 == Band(t, 5, 5)
         IN  <<255, Affine(165, 90, t2), Affine(0, 128, t2)>>

Terrain(t) ==
  IF Below(t, 40)
    THEN LET t2 == Band(t, 0, 4)
         IN  <<Affine(34, 102, t2), Affine(139, -69, t2), Affine(34, 11, t2)>>
  ELSE IF Below(t, 80)
    THEN LET t2 == Band(t, 4, 4)
         IN  <<Affine(136, 65, t2), Affine(70, 70, t2), Affine(45, 45, t2)>>
  ELSE LET t2 == Band(t, 8, 2)
       IN  <<Affine(201, 54, t2), Affine(140, 115, t2), Affine(90, 165, t2)>>

Ocean(t) ==
  LET t2 == [n |-> t.n * t.n, d |-> t.d * t.d]
  IN  <<Affine(5, 75, t2), Affine(39, 180, t), Affine(87, 168, t)>>

Sunset(t) ==
  IF Below(t, 40)
    THEN LET t2 == Band(t, 0, 4)
         IN  <<Affine(75, 180, t2), Affine(0, 69, t2), Affine(130, -130, t2)>>
    ELSE LET t2 == Band(t, 4, 6)
         IN  <<255, Affine(69, 186, t2), Affine(0, 224, t2)>>

Forest(t) ==
  IF Below(t, 70)
    THEN LET t2 == Band(t, 0, 7)
         IN  <<Affine(34, 100, t2), Affine(68, 137, t2), Affine(34, -34, t2)>>
    ELSE LET t2 == Band(t, 7, 3)
         IN  <<Affine(134, 121, t2), Affine(205, 50, t2), Affine(0, 50, t2)>>

Desert(t) == <<Affine(139, 116, t), Affine(90, 140, t), Affine(43, 177, t)>>

Arctic(t) ==
  IF Below(t, 60)
    THEN LET t2 == Band(t, 0, 6)
         IN  <<Affine(25, 148, t2), Affine(51, 165, t2), Affine(102, 138, t2)>>
    ELSE LET t2 == Band(t, 6, 4)
         IN  <<Affine(173, 82, t2), Affine(216, 39, t2), Affine(240, 15, t2)>>

Lava(t) ==
  IF Below(t, 33) THEN <<Trunc(765 * t.n, t.d), 0, 0>>
  ELSE IF Below(t, 66)
    THEN <<255, Trunc((100 * t.n - 33 * t.d) * 765, 100 * t.d), 0>>
  ELSE <<255, 255, Trunc((100 * t.n - 66 * t.d) * 384, 100 * t.d)>>

\* (t - a/10) * 5, the rescaling of turbo's bands
Fifth(t, a) == [n |-> 5 * (10 * t.n - a * t.d), d |-> 10 * t.d]

Turbo(t) ==
  IF Below(t, 20)
    THEN LET t2 == Fifth(t, 0)
         IN  <<Affine(48, 30, t2), Affine(18, 60, t2), Affine(59, 196, t2)>>
  ELSE IF Below(t, 40)
    THEN LET t2 == Fifth(t, 2)
         IN  <<Affine(78, 100, t2), Affine(78, 177, t2), Affine(255, -155, t2)>>
  ELSE IF Below(t, 60)
    THEN LET t2 == Fifth(t, 4)
         IN  <<Affine(178, 77, t2), 255, Affine(100, -100, t2)>>
  ELSE IF Below(t, 80)
    THEN LET t2 == Fifth(t, 6)
         IN  <<255, Affine(255, -140, t2), 0>>
  ELSE LET t2 == Fifth(t, 8)
       IN  <<Affine(255, -100, t2), Affine(115, -97, t2), 0>>

Hsl(t) == hsl_to_rgb(t, Saturation, Lightness)

HslInverted(t) ==
  hsl_to_rgb([n |-> t.d - t.n, d |-> t.d], Saturation, Lightness)

\* the else branch taking the hsl gradient instead of the rainbow
UnknownSchemeColorByPosition(index, total) == Hsl(Position(index, total))

\* lines 504-506: an unknown scheme is the call with 'rainbow'
UnknownSchemeColor(index, total) == Rainbow(index)

get_color_for_index(index, total, scheme) ==
  LET t == Position(index, total) IN
  CASE scheme = "rainbow"      -> Rainbow(index)
    [] scheme = "heatmap"      -> Heatmap(t)
    [] scheme = "viridis"      -> Viridis(t)
    [] scheme = "plasma"       -> Plasma(t)
    [] scheme = "cool_warm"    -> CoolWarm(t)
    [] scheme = "cool"         -> Cool(t)
    [] scheme = "warm"         -> Warm(t)
    [] scheme = "terrain"      -> Terrain(t)
    [] scheme = "ocean"        -> Ocean(t)
    [] scheme = "sunset"       -> Sunset(t)
    [] scheme = "forest"       -> Forest(t)
    [] scheme = "desert"       -> Desert(t)
    [] scheme = "arctic"       -> Arctic(t)
    [] scheme = "lava"         -> Lava(t)
    [] scheme = "turbo"        -> Turbo(t)
    [] scheme = "hsl"          -> Hsl(t)
    [] scheme = "hsl_inverted" -> HslInverted(t)
    [] OTHER                   -> UnknownSchemeColor(index, total)

(***************************************************************************)
(* TagAnalyzer._rgb_to_int: (r << 16) | (g << 8) | b                       *)
(***************************************************************************)
RECURSIVE Pow2(_)
Pow2(k) == IF k = 0 THEN 1 ELSE 2 * Pow2(k - 1)

\* a << k and a >> k
ShiftLeft(a, k) == a * Pow2(k)
ShiftRight(a, k) == a \div Pow2(k)

\* a | b and a & b, bit by bit, on naturals
RECURSIVE BitOr(_, _)
BitOr(a, b) ==
  IF a = 0 THEN b
  ELSE IF b = 0 THEN a
  ELSE (IF a % 2 = 1 \/ b % 2 = 1 THEN 1 ELSE 0)
         + 2 * BitOr(a \div 2, b \div 2)

RECURSIVE BitAnd(_, _)
BitAnd(a, b) ==
  IF a = 0 \/ b = 0 THEN 0
  ELSE (IF a % 2 = 1 /\ b % 2 = 1 THEN 1 ELSE 0)
         + 2 * BitAnd(a \div 2, b \div 2)

\* _rgb_to_int with the green channel shifted by half a byte
RgbToIntShortShift(rgb) ==
  BitOr(BitOr(ShiftLeft(rgb[1], 16), ShiftLeft(rgb[2], 4)), rgb[3])

rgb_to_int(rgb) ==
  BitOr(BitOr(ShiftLeft(rgb[1], 16), ShiftLeft(rgb[2], 8)), rgb[3])

(***************************************************************************)
(* TagAnalyzer.calculate_water_level                                       *)
(***************************************************************************)
\* d.values()
Values(c) == [i \in 1..Len(c) |-> c[i].n]

\* sorted(d.values())
SortedValues(c) == SortSeq(Values(c), LAMBDA a, b : a < b)

\* sorted(...) without reverse=True
Unreversed(s) == s

Reverse(s) == [i \in 1..Len(s) |-> s[Len(s) + 1 - i]]

Max(a, b) == IF a >= b THEN a ELSE b
Min(a, b) == IF a <= b THEN a ELSE b

\* the water level returned when nothing else decides
DefaultWaterLevel == 30

calculate_water_level ==
  LET filtered_tags == get_filtered_tags(1)
      counts == Reverse(SortedValues(filtered_tags))
  IN  IF filtered_tags = << >> THEN DefaultWaterLevel
      ELSE IF Len(counts) < 10 THEN Max(2, counts[(Len(counts) \div 2) + 1])
      ELSE IF counts[1] <= 30 THEN Max(2, (counts[1] * 3) \div 10)
      ELSE DefaultWaterLevel

(***************************************************************************)
(* TagAnalyzer._calculate_bayesian_score.  A score is the fraction         *)
(* num / den in units of 1e-5: the prior is in hundredths and the          *)
(* logarithm in thousandths.                                               *)
(***************************************************************************)
\* floor(1000 * math.log(n)) for n = 1, 2, ...
LnTable ==
  << 0, 693, 1098, 1386, 1609, 1791, 1945, 2079, 2197, 2302,
     2397, 2484, 2564, 2639, 2708, 2772, 2833, 2890, 2944, 2995,
     3044, 3091, 3135, 3178, 3218, 3258, 3295, 3332, 3367, 3401,
     3433, 3465, 3496, 3526, 3555, 3583, 3610, 3637, 3663, 3688,
     3713, 3737, 3761, 3784, 3806, 3828, 3850, 3871, 3891, 3912,
     3931, 3951, 3970, 3988, 4007, 4025, 4043, 4060, 4077, 4094,
     4110, 4127, 4143, 4158 >>

LnMilli(n) == LnTable[n]

\* the length factors applied to file patterns as well
PriorLengthForFiles(term, is_file_pattern) ==
  LET p1 == IF StartsWith(term, ConvPrefix) THEN 120 ELSE 100
      p2 == IF is_file_pattern THEN (p1 * 15) \div 10 ELSE p1
  IN  IF Len(term) < 4 THEN (p2 * 5) \div 10
      ELSE IF Len(term) > 8 THEN (p2 * 11) \div 10
      ELSE p2

\* lines 118-133
Prior(term, is_file_pattern) ==
  LET p1 == IF StartsWith(term, ConvPrefix) THEN 120 ELSE 100
  IN  IF is_file_pattern THEN (p1 * 15) \div 10
      ELSE IF Len(term) < 4 THEN (p1 * 5) \div 10
      ELSE IF Len(term) > 8 THEN (p1 * 11) \div 10
      ELSE p1

\* doc_freq and total_docs are None when not supplied
calculate_bayesian_score(term, count, total_terms, doc_freq, total_docs, is_file_pattern) ==
  LET prior == Prior(term, is_file_pattern)
      weight == IF doc_freq # None /\ total_docs # None /\ total_docs > 0
                  THEN LnMilli(total_docs) - LnMilli(1 + doc_freq)
                  ELSE LnMilli(count + 1)
  IN  IF total_terms > 0
        THEN [num |-> count * prior * weight, den |-> total_terms]
        ELSE [num |-> 0, den |-> 1]

\* a.score < b.score
ScoreLess(a, b) == a.num * b.den < b.num * a.den

ScoreEqual(a, b) == a.num * b.den = b.num * a.den

(***************************************************************************)
(* sorted(scores.items(), key=lambda x: x[1][0], reverse=True): a stable   *)
(* sort, so items of equal score stay in the order of the dict             *)
(***************************************************************************)
\* whether item a comes before item b in the sorted list: a higher score,
\* or the same score and an earlier place in the dict
Before(a, b) ==
  \/ ScoreLess(b.score, a.score)
  \/ (ScoreEqual(a.score, b.score) /\ a.pos < b.pos)

SortByScore(items) == SortSeq(items, Before)

\* items[:slots]
Truncate(items, slots) == SubSeq(items, 1, Min(Len(items), slots))

(***************************************************************************)
(* TagAnalyzer.generate_color_groups                                       *)
(***************************************************************************)
TagQueryPrefix == <<"t","a","g",":"," ","#">>
FileQueryPrefix == <<"f","i","l","e",":"," ">>

\* lines 160 and 162
Included(level) == level # None /\ level > 0

\* TagSlots without the split between the two spaces
TagSlotsUnsplit(include_tags, include_patterns) ==
  IF include_tags THEN 60 ELSE 0

\* lines 165-175: the slots of the tag space and of the file space
TagSlots(include_tags, include_patterns) ==
  IF include_tags /\ include_patterns THEN 30
  ELSE IF include_tags THEN 60
  ELSE 0

FileSlots(include_tags, include_patterns) ==
  IF include_tags /\ include_patterns THEN 30
  ELSE IF include_tags THEN 0
  ELSE IF include_patterns THEN 60
  ELSE 0

\* AboveWater with == for >=
AboveWaterExactly(counts, level) ==
  LET Kept(e) == e.n = level IN SelectSeq(counts, Kept)

\* AboveWater with the comparison the wrong way round for equal counts
AboveWaterStrictlyBelow(counts, level) ==
  LET Kept(e) == e.n >= level - 1 IN SelectSeq(counts, Kept)

\* lines 185-186 and 230-231: the labels at or above the water level
AboveWater(counts, level) ==
  LET Kept(e) == e.n >= level IN SelectSeq(counts, Kept)

\* lines 193-196 and 237-242: each label with its score and count
Scored(above_water, is_file_pattern) ==
  LET total == SumValues(above_water) IN
  [i \in 1..Len(above_water) |->
     [key   |-> above_water[i].key,
      n     |-> above_water[i].n,
      pos   |-> i,
      score |-> calculate_bayesian_score(above_water[i].key, above_water[i].n,
                                         total, None, None, is_file_pattern)]]

\* lines 199-202 and 245-246
Ranked(above_water, is_file_pattern, slots) ==
  Truncate(SortByScore(Scored(above_water, is_file_pattern)), slots)

\* lines 205-215 and 249-261
ColorGroups(sorted, scheme, prefix) ==
  [i \in 1..Len(sorted) |->
     [query |-> prefix \o sorted[i].key,
      color |-> [a |-> 1,
                 rgb |-> rgb_to_int(get_color_for_index(i - 1, Len(sorted),
                                                        scheme))]]]

\* lines 219-227: the file water level when none was given
PatternWaterLevel ==
  LET pattern_counts == SortedValues(file_patterns)
      len == Len(pattern_counts)
      index == len \div 10
  IN  IF len = 0 THEN 2
      ELSE IF index < len
        THEN (IF index = 0 THEN pattern_counts[1]
                           ELSE pattern_counts[len - index + 1])
        ELSE pattern_counts[len]

\* lines 178-215
TagGroups(water_level, tag_slots, tag_color_scheme) ==
  LET filtered_tags == get_filtered_tags(DefaultMinCount)
      level == IF water_level = None THEN calculate_water_level
                                     ELSE water_level
      above_water_tags == AboveWater(filtered_tags, level)
  IN  ColorGroups(Ranked(above_water_tags, FALSE, tag_slots),
                  tag_color_scheme, TagQueryPrefix)

\* lines 218-261
FileGroups(file_water_level, file_slots, file_color_scheme) ==
  LET level == IF file_water_level = None THEN PatternWaterLevel
                                          ELSE file_water_level
      above_water_patterns == AboveWater(file_patterns, level)
  IN  ColorGroups(Ranked(above_water_patterns, TRUE, file_slots),
                  file_color_scheme, FileQueryPrefix)

generate_color_groups(water_level, max_groups, file_water_level, tag_color_scheme, file_color_scheme) ==
  LET include_tags == Included(water_level)
      include_patterns == Included(file_water_level)
      tag_slots == TagSlots(include_tags, include_patterns)
      file_slots == FileSlots(include_tags, include_patterns)
  IN  IF ~include_tags /\ ~include_patterns THEN << >>
      ELSE (IF include_tags /\ tag_slots > 0
              THEN TagGroups(water_level, tag_slots, tag_color_scheme)
              ELSE << >>)
           \o
           (IF include_patterns /\ file_patterns # << >> /\ file_slots > 0
              THEN FileGroups(file_water_level, file_slots, file_color_scheme)
              ELSE << >>)

(***************************************************************************)
(* Specification Spec: one registry, fed by add_tag and by scans           *)
(***************************************************************************)
vars == <<tag_counts, conversation_tags, keyword_tags, exclusions,
          file_patterns, n_adds, ret, analysis, disk, dialog>>

\* analyze_all_tags has not been called
NotCalled == [pc |-> "idle"]

\* no template directory and no .obsidian directory are looked at
NoDisk == [templates |-> << >>]

\* interactive_water_level_adjustment has not been called
NoDialog == [pc |-> "idle"]

NoArgs == [x |-> 0]

Init ==
  /\ tag_counts = << >>
  /\ conversation_tags = {}
  /\ keyword_tags = {}
  /\ \E file \in ExclusionFiles : exclusions = load_exclusions(file)
  /\ file_patterns = << >>
  /\ n_adds = 0
  /\ disk = NoDisk
  /\ dialog = NoDialog
  /\ ret = [op |-> "init", args |-> NoArgs, value |-> 0]
  /\ analysis = NotCalled

AddTag ==
  /\ n_adds < MaxAdds
  /\ \E tag \in TagInputs, tag_type \in TagTypes :
       /\ add_tag(tag, tag_type)
       /\ ret' = [op |-> "add_tag",
                  args |-> [tag |-> tag, tag_type |-> tag_type],
                  value |-> 0]
  /\ n_adds' = n_adds + 1
  /\ UNCHANGED <<analysis, disk, dialog>>

ScanMarkdownFiles ==
  \E md_files \in Corpora :
    /\ scan_markdown_files_for_tags(md_files)
    /\ ret' = [op |-> "scan_markdown_files_for_tags",
               args |-> [md_files |-> md_files,
                         fresh |-> CurrentTables = ResetTables],
               value |-> Len(md_files)]
    /\ n_adds' = 0
    /\ UNCHANGED <<analysis, disk, dialog>>

GetFilteredTags ==
  \E min_count \in 1..MaxMinCount :
    /\ ret' = [op |-> "get_filtered_tags",
               args |-> [min_count |-> min_count],
               value |-> get_filtered_tags(min_count)]
    /\ UNCHANGED <<registry, n_adds, analysis, disk, dialog>>

Next == AddTag \/ ScanMarkdownFiles \/ GetFilteredTags

Spec == Init /\ [][Next]_vars

(***************************************************************************)
(* Specification SpecGroups: a scanned registry, a few more add_tag calls, *)
(* and generate_color_groups with any water levels, budget and schemes     *)
(***************************************************************************)
\* the default of the max_groups parameter
DefaultMaxGroups == 60

WaterLevels == {None} \cup 0..MaxWaterLevel

Budgets == {DefaultMaxGroups, SmallBudget}

\* <<tag_color_scheme, file_color_scheme>>
SchemePairs ==
  { <<"ocean", "sunset">> }

InitGroups ==
  /\ \E file \in ExclusionFiles : exclusions = load_exclusions(file)
  /\ \E md_files \in GroupCorpora :
       LET t == ScanTables(ResetTables, md_files) IN
       /\ tag_counts = t.tag_counts
       /\ conversation_tags = t.conversation_tags
       /\ keyword_tags = t.keyword_tags
       /\ file_patterns = t.file_patterns
  /\ n_adds = 0
  /\ disk = NoDisk
  /\ dialog = NoDialog
  /\ ret = [op |-> "init", args |-> NoArgs, value |-> 0]
  /\ analysis = NotCalled

\* add_tag calls come before the colour groups are generated
GroupsAddTag ==
  /\ n_adds < MaxGroupAdds
  /\ ret.op # "generate_color_groups"
  /\ \E tag \in TagInputs, tag_type \in TagTypes :
       /\ add_tag(tag, tag_type)
       /\ ret' = [op |-> "add_tag",
                  args |-> [tag |-> tag, tag_type |-> tag_type],
                  value |-> 0]
  /\ n_adds' = n_adds + 1
  /\ UNCHANGED <<analysis, disk, dialog>>

\* create_obsidian_config generates the colour groups once, from the
\* registry as it stands
GenerateColorGroups ==
  /\ ret.op # "generate_color_groups"
  /\ \E water_level \in WaterLevels, file_water_level \in WaterLevels,
     max_groups \in Budgets, schemes \in SchemePairs :
       ret' = [op |-> "generate_color_groups",
               args |-> [water_level |-> water_level,
                         max_groups |-> max_groups,
                         file_water_level |-> file_water_level,
                         tag_color_scheme |-> schemes[1],
                         file_color_scheme |-> schemes[2]],
               value |-> generate_color_groups(water_level, max_groups,
                           file_water_level, schemes[1], schemes[2])]
  /\ UNCHANGED <<registry, n_adds, analysis, disk, dialog>>

NextGroups == GroupsAddTag \/ GenerateColorGroups

SpecGroups == InitGroups /\ [][NextGroups]_vars

(***************************************************************************)
(* Reading the colour groups that generate_color_groups returned           *)
(***************************************************************************)
Generated == ret.op = "generate_color_groups"

IsTagGroup(g) == StartsWith(g.query, TagQueryPrefix)
IsFileGroup(g) == StartsWith(g.query, FileQueryPrefix)

\* the label a query names: what follows "tag: #" or "file: "
GroupLabel(g) == SubSeq(g.query, Len(TagQueryPrefix) + 1, Len(g.query))

ReturnedTagGroups == SelectSeq(ret.value, IsTagGroup)
ReturnedFileGroups == SelectSeq(ret.value, IsFileGroup)

\* the tags that pass get_filtered_tags() and meet the water level, and the
\* file patterns that meet theirs, as sets
EligibleTags(water_level) ==
  { k \in Keys(tag_counts) :
      /\ Count(tag_counts, k) >= DefaultMinCount
      /\ Count(tag_counts, k) >= water_level
      /\ ~(k \in keyword_tags /\ Lower(k) \in exclusions) }

EligiblePatterns(file_water_level) ==
  { k \in Keys(file_patterns) : Count(file_patterns, k) >= file_water_level }

(***************************************************************************)
(* C1  The list generate_color_groups returns has at most max_groups       *)
(* colour groups, and each label space has at most its allocated slots.    *)
(* The code never reads max_groups: the slots are 30/30 or 60 whatever     *)
(* budget the caller configured.                                           *)
(***************************************************************************)
C1_BudgetRespected ==
  Generated =>
    /\ Len(ret.value) <= ret.args.max_groups
    /\ Len(ReturnedTagGroups)
         <= TagSlots(Included(ret.args.water_level),
                     Included(ret.args.file_water_level))
    /\ Len(ReturnedFileGroups)
         <= FileSlots(Included(ret.args.water_level),
                      Included(ret.args.file_water_level))

(***************************************************************************)
(* C2  Every colour group returned names a label whose count in its own    *)
(* space is at least that space's water level.                             *)
(***************************************************************************)
C2_GroupsMeetWaterLevel ==
  Generated =>
    \A i \in 1..Len(ret.value) :
      LET g == ret.value[i] IN
      /\ IsTagGroup(g) =>
           /\ ret.args.water_level # None
           /\ Count(tag_counts, GroupLabel(g)) >= ret.args.water_level
      /\ IsFileGroup(g) =>
           /\ ret.args.file_water_level # None
           /\ Count(file_patterns, GroupLabel(g)) >= ret.args.file_water_level
      /\ IsTagGroup(g) \/ IsFileGroup(g)

\* both spaces emitted groups, and the tag water level kept a tag out that
\* get_filtered_tags() had let through
C2_Witness ==
  /\ Generated
  /\ ReturnedTagGroups # << >>
  /\ ReturnedFileGroups # << >>
  /\ \E k \in Keys(tag_counts) :
       /\ Count(tag_counts, k) >= DefaultMinCount
       /\ Count(tag_counts, k) < ret.args.water_level
  /\ \E k \in Keys(file_patterns) :
       Count(file_patterns, k) < ret.args.file_water_level

(***************************************************************************)
(* C7  30 slots for each space when both water levels are > 0, all 60 for  *)
(* the only space whose water level is > 0, the empty list when neither    *)
(* is; an included space emits min(eligible labels, slots) groups.         *)
(***************************************************************************)
C7_SlotsAndTruncation ==
  Generated =>
    LET include_tags == Included(ret.args.water_level)
        include_patterns == Included(ret.args.file_water_level)
        tags == Cardinality(EligibleTags(ret.args.water_level))
        patterns == Cardinality(EligiblePatterns(ret.args.file_water_level))
    IN  /\ (include_tags /\ include_patterns) =>
             /\ Len(ReturnedTagGroups) = Min(tags, 30)
             /\ Len(ReturnedFileGroups) = Min(patterns, 30)
        /\ (include_tags /\ ~include_patterns) =>
             /\ Len(ReturnedTagGroups) = Min(tags, 60)
             /\ Len(ReturnedFileGroups) = 0
        /\ (~include_tags /\ include_patterns) =>
             /\ Len(ReturnedTagGroups) = 0
             /\ Len(ReturnedFileGroups) = Min(patterns, 60)
        /\ (~include_tags /\ ~include_patterns) => ret.value = << >>
        /\ Len(ret.value) = Len(ReturnedTagGroups) + Len(ReturnedFileGroups)

\* the scenario of the specification: 40 eligible tags and 10 eligible file
\* patterns with both spaces active give 30 tag groups and 10 file groups
C7_Witness ==
  /\ Generated
  /\ Included(ret.args.water_level)
  /\ Included(ret.args.file_water_level)
  /\ Cardinality(EligibleTags(ret.args.water_level)) = 40
  /\ Cardinality(EligiblePatterns(ret.args.file_water_level)) = 10
  /\ Len(ReturnedTagGroups) = 30
  /\ Len(ReturnedFileGroups) = 10
  /\ Len(ret.value) = 40

(***************************************************************************)
(* C8  Within a space the groups are in descending score order, labels of  *)
(* equal score by descending count and then in lexicographic label order,  *)
(* whatever the order the labels were first observed in.  The code sorts   *)
(* on the score alone, and the stable sort leaves labels of equal score in *)
(* the order of the dict, the order they were first observed in.           *)
(***************************************************************************)
\* the score the code gives a returned group's label
ScoreOfGroup(g, above_water, is_file_pattern) ==
  calculate_bayesian_score(GroupLabel(g), Count(above_water, GroupLabel(g)),
                           SumValues(above_water), None, None, is_file_pattern)

\* group g may come right before group h in the order the claim states
InClaimedOrder(g, h, above_water, is_file_pattern) ==
  LET sg == ScoreOfGroup(g, above_water, is_file_pattern)
      sh == ScoreOfGroup(h, above_water, is_file_pattern)
      ng == Count(above_water, GroupLabel(g))
      nh == Count(above_water, GroupLabel(h))
  IN  \/ ScoreLess(sh, sg)
      \/ /\ ScoreEqual(sg, sh)
         /\ \/ ng > nh
            \/ (ng = nh /\ StrLess(GroupLabel(g), GroupLabel(h)))

C8_TiesByCountThenLabel ==
  Generated =>
    LET tags == AboveWater(get_filtered_tags(DefaultMinCount),
                           ret.args.water_level)
        patterns == AboveWater(file_patterns, ret.args.file_water_level)
    IN  /\ \A i \in 1..(Len(ReturnedTagGroups) - 1) :
             InClaimedOrder(ReturnedTagGroups[i], ReturnedTagGroups[i + 1],
                            tags, FALSE)
        /\ \A i \in 1..(Len(ReturnedFileGroups) - 1) :
             InClaimedOrder(ReturnedFileGroups[i], ReturnedFileGroups[i + 1],
                            patterns, TRUE)

(***************************************************************************)
(* C3  get_filtered_tags returns every conversation tag whose count        *)
(* reaches min_count, also when the tag is a keyword tag too and its       *)
(* lowercase form is excluded.  Line 62 tests the keyword membership       *)
(* alone, so such a tag is dropped.                                        *)
(***************************************************************************)
C3_ConversationTagsNeverExcluded ==
  ret.op = "get_filtered_tags" =>
    \A tag \in conversation_tags :
      Count(tag_counts, tag) >= ret.args.min_count
        => tag \in Keys(ret.value)

(***************************************************************************)
(* C4  No label is in the conversation-tag set and in the keyword-tag set  *)
(* at once, after any sequence of add_tag calls and scans.  add_tag adds   *)
(* to the set its hint names and never looks at the other set.             *)
(***************************************************************************)
C4_OriginSetsDisjoint == conversation_tags \cap keyword_tags = {}

(***************************************************************************)
(* C5  A scan leaves the tables a fresh registry would have after scanning *)
(* the same files, whatever the registry held before.                      *)
(***************************************************************************)
C5_ScanIsFreshScan ==
  ret.op = "scan_markdown_files_for_tags" =>
    CurrentTables = ScanFiles(ResetTables, ret.args.md_files)

\* a scan of a corpus with tags and patterns, run on a registry that held
\* counts from earlier add_tag calls or an earlier scan
C5_Witness ==
  /\ ret.op = "scan_markdown_files_for_tags"
  /\ ~ret.args.fresh
  /\ tag_counts # << >>
  /\ file_patterns # << >>
  /\ conversation_tags # {}
  /\ keyword_tags # {}

(***************************************************************************)
(* Specification SpecColor: _get_color_for_index and _rgb_to_int, each     *)
(* applied to arguments drawn when the call is made                        *)
(***************************************************************************)
\* the scheme names of lines 269-506, and one name the code does not know
SchemeNames ==
  { "rainbow", "heatmap", "viridis", "plasma", "cool_warm", "cool", "warm",
    "terrain", "ocean", "sunset", "forest", "desert", "arctic", "lava",
    "turbo", "hsl", "hsl_inverted", "pastel" }

\* the channel values tried: every ChannelStep-th one, and both ends
Channels == { c \in 0..255 : c % ChannelStep = 0 \/ c = 255 }

ColorCalls ==
  { [fn |-> "get_color_for_index", index |-> a[1], total |-> a[2],
     scheme |-> scheme] :
      a \in { b \in (0..(MaxTotal - 1)) \X (1..MaxTotal) : b[1] < b[2] },
      scheme \in SchemeNames }

\* the scheme names the if/elif chain of lines 270-497 tests for
RecognisedSchemes ==
  { "rainbow", "heatmap", "viridis", "plasma", "cool_warm", "cool", "warm",
    "terrain", "ocean", "sunset", "forest", "desert", "arctic", "lava",
    "turbo", "hsl", "hsl_inverted" }

\* names it does not test for; the comparison is case sensitive
UnknownSchemes == { "pastel", "Rainbow", "none" }

\* calls with an unknown scheme, for every rank and total, also a rank
\* that is not below the total and a total of 0
UnknownCalls ==
  { [fn |-> "get_color_for_index", index |-> index, total |-> total,
     scheme |-> scheme] :
      index \in 0..MaxTotal, total \in 0..MaxTotal, scheme \in UnknownSchemes }

\* the counts and totals a score is asked for
MaxScoreCount == 3

\* labels of 3, 4, 5, 6, 8, 9 and 11 characters, two with the 'conv-' prefix
ScoreTerms ==
  { Api, <<"n","o","t","e">>, <<"n","o","t","e","s">>, ConvA,
    <<"d","a","t","a","b","a","s","e">>, ConvPrefix \o <<"2","0","2","4">>,
    <<"l","o","n","g","t","o","p","i","c","0","1">> }

\* doc_freq and total_docs: not supplied, or supplied with total_docs 0, below
\* and above 1 + doc_freq
ScoreCalls ==
  { [fn |-> "calculate_bayesian_score", term |-> term, count |-> count,
     total_terms |-> total_terms, doc_freq |-> doc_freq,
     total_docs |-> total_docs, is_file_pattern |-> is_file_pattern] :
      term \in ScoreTerms, count \in 0..MaxScoreCount,
      total_terms \in {0, MaxScoreCount, 2 * MaxScoreCount + 1},
      doc_freq \in {None, 0, 2}, total_docs \in {None, 0, 2, 10},
      is_file_pattern \in BOOLEAN }

PackCalls ==
  { [fn |-> "rgb_to_int", rgb |-> rgb] : rgb \in Channels \X Channels \X Channels }

InitColor ==
  /\ tag_counts = << >>
  /\ conversation_tags = {}
  /\ keyword_tags = {}
  /\ exclusions = {}
  /\ file_patterns = << >>
  /\ n_adds = 0
  /\ disk = NoDisk
  /\ dialog = NoDialog
  /\ analysis = NotCalled
  /\ \E call \in ColorCalls \cup UnknownCalls \cup PackCalls \cup ScoreCalls :
       ret = [op |-> "call", args |-> call, value |-> 0]

GetColorForIndex ==
  /\ ret.op = "call"
  /\ ret.args.fn = "get_color_for_index"
  /\ ret' = [op |-> "get_color_for_index", args |-> ret.args,
             value |-> get_color_for_index(ret.args.index, ret.args.total,
                                           ret.args.scheme)]
  /\ UNCHANGED <<registry, n_adds, analysis, disk, dialog>>

RgbToInt ==
  /\ ret.op = "call"
  /\ ret.args.fn = "rgb_to_int"
  /\ ret' = [op |-> "rgb_to_int", args |-> ret.args,
             value |-> rgb_to_int(ret.args.rgb)]
  /\ UNCHANGED <<registry, n_adds, analysis, disk, dialog>>

CalculateBayesianScore ==
  /\ ret.op = "call"
  /\ ret.args.fn = "calculate_bayesian_score"
  /\ ret' = [op |-> "calculate_bayesian_score", args |-> ret.args,
             value |-> calculate_bayesian_score(ret.args.term, ret.args.count,
                         ret.args.total_terms, ret.args.doc_freq,
                         ret.args.total_docs, ret.args.is_file_pattern)]
  /\ UNCHANGED <<registry, n_adds, analysis, disk, dialog>>

NextColor == GetColorForIndex \/ RgbToInt \/ CalculateBayesianScore

SpecColor == InitColor /\ [][NextColor]_vars

(***************************************************************************)
(* C9  For every scheme name and every rank below total, each channel      *)
(* _get_color_for_index returns is an integer in 0..255.  The heatmap's    *)
(* last segment computes int((t - 0.66) * 3 * 255) with no clamp, which is *)
(* 260 at t = 1.                                                           *)
(***************************************************************************)
C9_ChannelsInRange ==
  ret.op = "get_color_for_index" =>
    /\ Len(ret.value) = 3
    /\ \A i \in 1..3 : ret.value[i] \in 0..255

(***************************************************************************)
(* C10  _rgb_to_int of channels in 0..255 is in 0..0xFFFFFF, and           *)
(* (rgb >> 16) & 0xFF, (rgb >> 8) & 0xFF, rgb & 0xFF give the channels     *)
(* back.                                                                   *)
(***************************************************************************)
C10_PackRoundTrip ==
  ret.op = "rgb_to_int" =>
    /\ ret.value \in 0..16777215
    /\ BitAnd(ShiftRight(ret.value, 16), 255) = ret.args.rgb[1]
    /\ BitAnd(ShiftRight(ret.value, 8), 255) = ret.args.rgb[2]
    /\ BitAnd(ret.value, 255) = ret.args.rgb[3]

\* three different channels, none of them zero, the first the largest a
\* channel can be
C10_Witness ==
  /\ ret.op = "rgb_to_int"
  /\ ret.args.rgb = <<255, 34, 17>>
  /\ ret.value = 16720401

(***************************************************************************)
(* analyze_tags.py: extract_tags_from_file, process_files_chunk and        *)
(* analyze_all_tags with its pool of worker processes                      *)
(***************************************************************************)
\* lines 16-29: the tags of the file, none when reading it raises
extract_tags_from_file(file_path) ==
  IF file_path.readable THEN Extracted[file_path].tags ELSE << >>

\* lines 35-37: the loop over the files of the chunk
RECURSIVE CountFiles(_, _)
CountFiles(local_counter, files) ==
  IF files = << >> THEN local_counter
  ELSE CountFiles(CounterUpdateKeys(local_counter,
                                    extract_tags_from_file(Head(files))),
                  Tail(files))

process_files_chunk(files_chunk) == CountFiles(<< >>, files_chunk)

\* line 56
ChunkSize(n_files, num_processes) == Max(1, n_files \div num_processes)

\* the slices with one file too many each
FileChunksOverlapping(md_files, chunk_size) ==
  [c \in 1..((Len(md_files) + chunk_size - 1) \div chunk_size) |->
     SubSeq(md_files, (c - 1) * chunk_size + 1,
            Min(c * chunk_size + 1, Len(md_files)))]

\* line 57: md_files[i:i + chunk_size] for i in range(0, len, chunk_size)
FileChunks(md_files, chunk_size) ==
  [c \in 1..((Len(md_files) + chunk_size - 1) \div chunk_size) |->
     SubSeq(md_files, (c - 1) * chunk_size + 1,
            Min(c * chunk_size, Len(md_files)))]

\* lines 67-69: total_counter.update(counter) for each counter in turn
RECURSIVE MergeCounters(_, _)
MergeCounters(total_counter, counters) ==
  IF counters = << >> THEN total_counter
  ELSE MergeCounters(CounterUpdate(total_counter, Head(counters)),
                     Tail(counters))

(***************************************************************************)
(* Specification SpecAnalyze: one call of analyze_all_tags.  The pool's    *)
(* workers take the chunks in order and return in any order.               *)
(***************************************************************************)
InitAnalyze ==
  /\ tag_counts = << >>
  /\ conversation_tags = {}
  /\ keyword_tags = {}
  /\ exclusions = {}
  /\ file_patterns = << >>
  /\ n_adds = 0
  /\ disk = NoDisk
  /\ dialog = NoDialog
  /\ ret = [op |-> "init", args |-> NoArgs, value |-> 0]
  /\ \E n \in 0..MaxFiles, num_processes \in 1..MaxProcesses :
       analysis = [pc             |-> "start",
                   md_files       |-> FoundFiles(n),
                   num_processes  |-> num_processes,
                   file_chunks    |-> << >>,
                   task           |-> << >>,
                   worker         |-> [w \in 1..num_processes |-> 0],
                   results        |-> << >>,
                   returned       |-> << >>,
                   chunk_counters |-> << >>,
                   merged         |-> 0,
                   total_counter  |-> << >>,
                   result         |-> << >>]

\* lines 48-57: return {} when there is no file, else cut the chunks
SplitFiles ==
  /\ analysis.pc = "start"
  /\ IF analysis.md_files = << >>
       THEN analysis' = [analysis EXCEPT !.pc = "done"]
       ELSE LET chunks == FileChunks(analysis.md_files,
                                     ChunkSize(Len(analysis.md_files),
                                               analysis.num_processes))
            IN  analysis' =
                  [analysis EXCEPT
                     !.pc = "map",
                     !.file_chunks = chunks,
                     !.task = [c \in 1..Len(chunks) |-> "queued"],
                     !.results = [c \in 1..Len(chunks) |-> << >>]]
  /\ UNCHANGED <<registry, n_adds, ret, disk, dialog>>

\* line 63, in the pool: an idle worker takes the next chunk of the queue
WorkerTakes ==
  /\ analysis.pc = "map"
  /\ \E w \in 1..analysis.num_processes :
       /\ analysis.worker[w] = 0
       /\ \E c \in 1..Len(analysis.task) :
            /\ analysis.task[c] = "queued"
            /\ \A b \in 1..(c - 1) : analysis.task[b] # "queued"
            /\ analysis' = [analysis EXCEPT !.task[c] = "running",
                                            !.worker[w] = c]
  /\ UNCHANGED <<registry, n_adds, ret, disk, dialog>>

\* line 63, in the pool: a worker returns the counter of its chunk
WorkerReturns ==
  /\ analysis.pc = "map"
  /\ \E w \in 1..analysis.num_processes :
       /\ analysis.worker[w] # 0
       /\ LET c == analysis.worker[w] IN
          analysis' =
            [analysis EXCEPT
               !.task[c] = "done",
               !.worker[w] = 0,
               !.results[c] = process_files_chunk(analysis.file_chunks[c]),
               !.returned = Append(@, c)]
  /\ UNCHANGED <<registry, n_adds, ret, disk, dialog>>

\* lines 62-63: pool.map returns the counters, in the order of the chunks,
\* when the last of them is there
PoolMapReturns ==
  /\ analysis.pc = "map"
  /\ \A c \in 1..Len(analysis.task) : analysis.task[c] = "done"
  /\ analysis' = [analysis EXCEPT !.pc = "merge",
                                  !.chunk_counters = analysis.results]
  /\ UNCHANGED <<registry, n_adds, ret, disk, dialog>>

\* lines 68-69: one turn of the merge loop
MergeCounter ==
  /\ analysis.pc = "merge"
  /\ analysis.merged < Len(analysis.chunk_counters)
  /\ analysis' =
       [analysis EXCEPT
          !.merged = @ + 1,
          !.total_counter =
             CounterUpdate(@, analysis.chunk_counters[analysis.merged + 1])]
  /\ UNCHANGED <<registry, n_adds, ret, disk, dialog>>

\* line 71
ReturnTotals ==
  /\ analysis.pc = "merge"
  /\ analysis.merged = Len(analysis.chunk_counters)
  /\ analysis' = [analysis EXCEPT !.pc = "done",
                                  !.result = analysis.total_counter]
  /\ UNCHANGED <<registry, n_adds, ret, disk, dialog>>

NextAnalyze ==
  \/ SplitFiles
  \/ WorkerTakes
  \/ WorkerReturns
  \/ PoolMapReturns
  \/ MergeCounter
  \/ ReturnTotals

SpecAnalyze == InitAnalyze /\ [][NextAnalyze]_vars

(***************************************************************************)
(* C6  The chunks handed to the workers are pairwise disjoint and cover    *)
(* every file; the merge starts only when every worker has returned its    *)
(* counter; the merged table is the count of one pass over all the files,  *)
(* in whatever order the workers return and in whatever order the          *)
(* counters are added.                                                     *)
(***************************************************************************)
\* the count of one sequential pass: each tag with its number of
\* occurrences in the readable files
SinglePassCount(md_files) ==
  LET tags == TagsOf(md_files) IN
  [k \in Range(tags) |-> Occurrences(tags, k)]

IsSinglePassCount(c, md_files) ==
  LET single == SinglePassCount(md_files) IN
  /\ Keys(c) = DOMAIN single
  /\ \A k \in Keys(c) : Count(c, k) = single[k]
  /\ Cardinality(Keys(c)) = Len(c)

C6_ChunksBarrierAndMerge ==
  LET a == analysis IN
  /\ a.pc \in {"map", "merge", "done"} /\ a.md_files # << >> =>
       /\ \A c, d \in 1..Len(a.file_chunks) :
            c # d => Range(a.file_chunks[c]) \cap Range(a.file_chunks[d]) = {}
       /\ UNION { Range(a.file_chunks[c]) : c \in 1..Len(a.file_chunks) }
            = Range(a.md_files)
  /\ a.pc \in {"start", "map"} => a.merged = 0 /\ a.total_counter = << >>
  /\ a.pc \in {"merge", "done"} /\ a.md_files # << >> =>
       /\ \A w \in 1..a.num_processes : a.worker[w] = 0
       /\ Range(a.returned) = 1..Len(a.file_chunks)
       /\ \A c \in 1..Len(a.file_chunks) :
            /\ a.task[c] = "done"
            /\ a.chunk_counters[c] = process_files_chunk(a.file_chunks[c])
  /\ a.pc = "done" =>
       /\ IsSinglePassCount(a.result, a.md_files)
       /\ \A p \in Permutations(1..Len(a.chunk_counters)) :
            IsSinglePassCount(
              MergeCounters(<< >>, [i \in 1..Len(a.chunk_counters) |->
                                      a.chunk_counters[p[i]]]),
              a.md_files)

\* a run with at least three chunks on at least two workers, an unreadable
\* file among the files, the first chunk not the first to return, and a tag
\* whose total comes from more than one chunk
C6_Witness ==
  /\ analysis.pc = "done"
  /\ Len(analysis.file_chunks) >= 3
  /\ analysis.num_processes >= 2
  /\ \E i \in 1..Len(analysis.md_files) : ~analysis.md_files[i].readable
  /\ analysis.returned[1] # 1
  /\ \E k \in Keys(analysis.result) :
       \A c \in 1..Len(analysis.chunk_counters) :
         Count(analysis.chunk_counters[c], k) < Count(analysis.result, k)

(***************************************************************************)
(* C11  get_filtered_tags(min_count) returns exactly the tags whose count  *)
(* is at least min_count, without the keyword tags whose lowercase form is *)
(* excluded, each with its count unchanged; with the default min_count of  *)
(* 2, the counts python 42, cli 3, x 1 give python 42, cli 3.              *)
(***************************************************************************)
C11_FilteredTagsExact ==
  ret.op = "get_filtered_tags" =>
    /\ Keys(ret.value) =
         { k \in Keys(tag_counts) :
             /\ Count(tag_counts, k) >= ret.args.min_count
             /\ ~(k \in keyword_tags /\ Lower(k) \in exclusions) }
    /\ \A k \in Keys(ret.value) : Count(ret.value, k) = Count(tag_counts, k)
    /\ Cardinality(Keys(ret.value)) = Len(ret.value)

\* the scenario: no exclusions, the default min_count, x dropped
C11_Witness ==
  /\ ret.op = "get_filtered_tags"
  /\ ret.args.min_count = DefaultMinCount
  /\ exclusions = {}
  /\ tag_counts = <<[key |-> Python, n |-> 42], [key |-> Cli, n |-> 3],
                    [key |-> Ex, n |-> 1]>>
  /\ ret.value = <<[key |-> Python, n |-> 42], [key |-> Cli, n |-> 3]>>

(***************************************************************************)
(* TagAnalyzer.create_obsidian_config and TagAnalyzer._generate_graph_json *)
(*   a JSON object is the list of its [key, value] pairs, in order; a      *)
(*   file is [name, state, pairs] with state "ok", "invalid" (no JSON      *)
(*   text) or "unreadable" (open raises); a directory is the list of its   *)
(*   files; disk.templates is obsidian_templates in the order glob lists   *)
(*   it, disk.exists and disk.obsidian are the .obsidian directory         *)
(***************************************************************************)
GraphName == "graph.json"
ColorGroupsKey == "colorGroups"

\* d[k], for a key d has
DictGet(d, k) == d[CHOOSE i \in 1..Len(d) : d[i].key = k].value

\* a dict that holds nothing but d[k] = v
DictSetAlone(d, k, v) == <<[key |-> k, value |-> v]>>

\* d[k] = v: in place when d has the key, at the end when it has not
DictSet(d, k, v) ==
  IF k \in Keys(d)
    THEN [i \in 1..Len(d) |-> IF d[i].key = k THEN [key |-> k, value |-> v]
                                              ELSE d[i]]
    ELSE Append(d, [key |-> k, value |-> v])

\* json.load: the dict of the pairs of the text, in order
RECURSIVE DictOfPairs(_, _)
DictOfPairs(d, pairs) ==
  IF pairs = << >> THEN d
  ELSE DictOfPairs(DictSet(d, Head(pairs).key, Head(pairs).value), Tail(pairs))

json_load(file) == DictOfPairs(<< >>, file.pairs)

\* json.dump: the pairs of the dict, in order
json_dump(name, d) == [name |-> name, state |-> "ok", pairs |-> d]

\* the files of dir without the one called name
Without(dir, name) == SelectSeq(dir, LAMBDA f : f.name # name)

\* open(path, 'w') and the write, or shutil.copy2 to path: the file replaces
\* the one of that name
PutFile(dir, file) == Append(Without(dir, file.name), file)

HasFile(dir, name) == \E i \in 1..Len(dir) : dir[i].name = name

FileNamed(dir, name) == dir[CHOOSE i \in 1..Len(dir) : dir[i].name = name]

\* lines 543-564; graph_file is graph.json in the .obsidian directory
generate_graph_json(d, tag_water_level, file_water_level, tag_color_scheme, file_color_scheme) ==
  IF ~HasFile(d.templates, GraphName)
       \/ FileNamed(d.templates, GraphName).state # "ok"
    THEN [disk |-> d, outcome |-> "raised"]
  ELSE
    LET graph_config == json_load(FileNamed(d.templates, GraphName))
        updated ==
          DictSet(graph_config, ColorGroupsKey,
                  generate_color_groups(tag_water_level, DefaultMaxGroups,
                                        file_water_level, tag_color_scheme,
                                        file_color_scheme))
    IN  IF ~d.exists THEN [disk |-> d, outcome |-> "raised"]
        ELSE [disk |-> [d EXCEPT !.obsidian =
                                   PutFile(@, json_dump(GraphName, updated))],
              outcome |-> "returned"]

\* lines 529-539: the loop over the template files, from the i-th on
RECURSIVE CopyTemplates(_, _, _)
CopyTemplates(d, i, levels) ==
  IF i > Len(d.templates) THEN [disk |-> d, outcome |-> "returned"]
  ELSE IF d.templates[i].name = GraphName
    THEN LET done == generate_graph_json(d, levels.tag_water_level,
                                         levels.file_water_level,
                                         levels.tag_color_scheme,
                                         levels.file_color_scheme)
         IN  IF done.outcome = "raised" THEN done
             ELSE CopyTemplates(done.disk, i + 1, levels)
  ELSE IF d.templates[i].state = "unreadable"
    THEN [disk |-> d, outcome |-> "raised"]
  ELSE CopyTemplates([d EXCEPT !.obsidian = PutFile(@, d.templates[i])],
                     i + 1, levels)

\* lines 518-541
create_obsidian_config(d, tag_water_level, file_water_level, tag_color_scheme, file_color_scheme) ==
  CopyTemplates([d EXCEPT !.exists = TRUE], 1,
                [tag_water_level |-> tag_water_level,
                 file_water_level |-> file_water_level,
                 tag_color_scheme |-> tag_color_scheme,
                 file_color_scheme |-> file_color_scheme])

(***************************************************************************)
(* Specification SpecConfig: a scanned registry, a template directory and  *)
(* one call of create_obsidian_config or of _generate_graph_json           *)
(***************************************************************************)
\* colour groups an earlier run left in a document
OldGroups ==
  <<[query |-> TagQueryPrefix \o Db, color |-> [a |-> 1, rgb |-> 255]]>>

\* graph.json templates: colorGroups in the middle, absent, and first
GraphDocuments ==
  << <<[key |-> "collapse-filter", value |-> "true"],
       [key |-> ColorGroupsKey, value |-> OldGroups],
       [key |-> "scale", value |-> "1.5"],
       [key |-> "close", value |-> "false"]>>,
     <<[key |-> "scale", value |-> "1"], [key |-> "search", value |-> ""]>>,
     <<[key |-> ColorGroupsKey, value |-> << >>],
       [key |-> "showTags", value |-> "true"]>> >>

AppFile ==
  [name |-> "app.json", state |-> "ok",
   pairs |-> <<[key |-> "legacyEditor", value |-> "false"]>>]

GraphTemplate(i) == [name |-> GraphName, state |-> "ok", pairs |-> GraphDocuments[i]]

BrokenTemplate(state) == [name |-> GraphName, state |-> state, pairs |-> << >>]

\* what obsidian_templates may hold, in the order glob lists it: nothing
\* (or no such directory), no graph.json, a graph.json that cannot be opened
\* or holds no JSON, and each of the documents
TemplateDirs ==
  << << >>,
     <<AppFile>>,
     <<AppFile, BrokenTemplate("unreadable")>>,
     <<BrokenTemplate("unreadable"), AppFile>>,
     <<BrokenTemplate("invalid"), AppFile>>,
     <<GraphTemplate(1), AppFile>>,
     <<AppFile, GraphTemplate(1)>>,
     <<GraphTemplate(2), AppFile>>,
     <<GraphTemplate(3)>> >>

\* the .obsidian directory before the call: not there, or there with the
\* graph.json of an earlier run
ObsidianDirs ==
  << [exists |-> FALSE, obsidian |-> << >>],
     [exists |-> TRUE,
      obsidian |-> <<json_dump(GraphName,
                               <<[key |-> ColorGroupsKey, value |-> OldGroups]>>)>>] >>

ConfigCorpora == << << >>, <<NotesFile, DbFile>>, GenCorpus(3, 2, 5) >>

InitConfig ==
  /\ exclusions = {}
  /\ \E c \in 1..Len(ConfigCorpora) :
       LET t == ScanTables(ResetTables, ConfigCorpora[c]) IN
       /\ tag_counts = t.tag_counts
       /\ conversation_tags = t.conversation_tags
       /\ keyword_tags = t.keyword_tags
       /\ file_patterns = t.file_patterns
  /\ n_adds = 0
  /\ ret = [op |-> "init", args |-> NoArgs, value |-> 0]
  /\ analysis = NotCalled
  /\ dialog = NoDialog
  /\ \E i \in 1..Len(TemplateDirs), o \in 1..Len(ObsidianDirs) :
       disk = [templates |-> TemplateDirs[i],
               exists    |-> ObsidianDirs[o].exists,
               obsidian  |-> ObsidianDirs[o].obsidian,
               before    |-> ObsidianDirs[o].obsidian]

CreateObsidianConfig ==
  /\ ret.op = "init"
  /\ \E tag_water_level \in WaterLevels, file_water_level \in WaterLevels :
       LET done == create_obsidian_config(disk, tag_water_level,
                                          file_water_level, "ocean", "sunset")
       IN  /\ disk' = done.disk
           /\ ret' = [op |-> "create_obsidian_config",
                      args |-> [tag_water_level |-> tag_water_level,
                                file_water_level |-> file_water_level,
                                tag_color_scheme |-> "ocean",
                                file_color_scheme |-> "sunset"],
                      value |-> done.outcome]
  /\ UNCHANGED <<registry, n_adds, analysis, dialog>>

GenerateGraphJson ==
  /\ ret.op = "init"
  /\ \E tag_water_level \in WaterLevels, file_water_level \in WaterLevels :
       LET done == generate_graph_json(disk, tag_water_level,
                                       file_water_level, "ocean", "sunset")
       IN  /\ disk' = done.disk
           /\ ret' = [op |-> "generate_graph_json",
                      args |-> [tag_water_level |-> tag_water_level,
                                file_water_level |-> file_water_level,
                                tag_color_scheme |-> "ocean",
                                file_color_scheme |-> "sunset"],
                      value |-> done.outcome]
  /\ UNCHANGED <<registry, n_adds, analysis, dialog>>

NextConfig == CreateObsidianConfig \/ GenerateGraphJson

SpecConfig == InitConfig /\ [][NextConfig]_vars

(***************************************************************************)
(* Reading the outcome of config assembly                                  *)
(***************************************************************************)
Assembled == ret.op \in {"create_obsidian_config", "generate_graph_json"}

TemplateUsable ==
  /\ HasFile(disk.templates, GraphName)
  /\ FileNamed(disk.templates, GraphName).state = "ok"

\* the keys of a document other than colorGroups, in order
OtherKeys(pairs) ==
  LET others == SelectSeq(pairs, LAMBDA e : e.key # ColorGroupsKey)
  IN  [i \in 1..Len(others) |-> others[i].key]

\* the graph.json files of a directory
GraphFiles(dir) == SelectSeq(dir, LAMBDA f : f.name = GraphName)

(***************************************************************************)
(* C12  After _generate_graph_json the written document has colorGroups    *)
(* equal to the generated list, and every other key of the template with   *)
(* the template's value, in the template's relative order.                 *)
(***************************************************************************)
C12_OnlyColorGroupsReplaced ==
  (Assembled /\ ret.value = "returned" /\ TemplateUsable) =>
    /\ Len(GraphFiles(disk.obsidian)) = 1
    /\ LET written == FileNamed(disk.obsidian, GraphName).pairs
           template == FileNamed(disk.templates, GraphName).pairs
       IN  /\ Len(SelectSeq(written, LAMBDA e : e.key = ColorGroupsKey)) = 1
           /\ DictGet(written, ColorGroupsKey) =
                generate_color_groups(ret.args.tag_water_level,
                                      DefaultMaxGroups,
                                      ret.args.file_water_level,
                                      ret.args.tag_color_scheme,
                                      ret.args.file_color_scheme)
           /\ OtherKeys(written) = OtherKeys(template)
           /\ \A i \in 1..Len(template) :
                template[i].key # ColorGroupsKey =>
                  DictGet(written, template[i].key) = template[i].value

\* create_obsidian_config on the template whose colorGroups sit between
\* other keys: the old groups are replaced by new ones
C12_Witness ==
  /\ ret.op = "create_obsidian_config"
  /\ ret.value = "returned"
  /\ TemplateUsable
  /\ FileNamed(disk.templates, GraphName).pairs = GraphDocuments[1]
  /\ HasFile(disk.obsidian, GraphName)
  /\ LET groups == DictGet(FileNamed(disk.obsidian, GraphName).pairs,
                           ColorGroupsKey)
     IN  Len(groups) >= 2 /\ groups # OldGroups

(***************************************************************************)
(* C13  With the template graph document missing or unreadable, config     *)
(* assembly ends in an error and writes no graph document.  With no        *)
(* graph.json among the templates, the loop of create_obsidian_config      *)
(* never calls _generate_graph_json, and the call returns normally.        *)
(***************************************************************************)
C13_MissingTemplateIsFatal ==
  (Assembled /\ ~TemplateUsable) =>
    /\ ret.value = "raised"
    /\ GraphFiles(disk.obsidian) = GraphFiles(disk.before)

(***************************************************************************)
(* Specification SpecUnreadable: the same files, some of them unreadable,  *)
(* scanned by scan_markdown_files_for_tags and counted by analyze_all_tags *)
(***************************************************************************)
InitUnreadable ==
  /\ tag_counts = << >>
  /\ conversation_tags = {}
  /\ keyword_tags = {}
  /\ exclusions = {}
  /\ file_patterns = << >>
  /\ n_adds = 0
  /\ disk = NoDisk
  /\ dialog = NoDialog
  /\ ret = [op |-> "init", args |-> NoArgs, value |-> 0]
  /\ \E p \in Permutations(1..3), locked \in SUBSET (1..3),
        num_processes \in 1..MaxProcesses :
       analysis = [pc             |-> "start",
                   md_files       |-> MixedCorpus(p, locked),
                   num_processes  |-> num_processes,
                   file_chunks    |-> << >>,
                   task           |-> << >>,
                   worker         |-> [w \in 1..num_processes |-> 0],
                   results        |-> << >>,
                   returned       |-> << >>,
                   chunk_counters |-> << >>,
                   merged         |-> 0,
                   total_counter  |-> << >>,
                   result         |-> << >>]

\* the scan of the files analyze_all_tags is given
ScanFoundFiles ==
  /\ ret.op = "init"
  /\ scan_markdown_files_for_tags(analysis.md_files)
  /\ ret' = [op |-> "scan_markdown_files_for_tags",
             args |-> [md_files |-> analysis.md_files, fresh |-> TRUE],
             value |-> Len(analysis.md_files)]
  /\ UNCHANGED <<n_adds, analysis, disk, dialog>>

NextUnreadable == ScanFoundFiles \/ NextAnalyze

SpecUnreadable == InitUnreadable /\ [][NextUnreadable]_vars

(***************************************************************************)
(* C14  A file that cannot be read never ends a scan: the scan and         *)
(* analyze_all_tags go through all the files, and each readable file adds  *)
(* all its tags to the counts, wherever the unreadable files are.          *)
(***************************************************************************)
\* the occurrences of tag in the readable files among files[1..n]
RECURSIVE ReadableOccurrences(_, _, _)
ReadableOccurrences(files, n, tag) ==
  IF n = 0 THEN 0
  ELSE ReadableOccurrences(files, n - 1, tag)
         + (IF files[n].readable
              THEN Occurrences(Extracted[files[n]].tags, tag)
              ELSE 0)

\* table c counts each tag as often as the readable files hold it
CountsReadableFiles(c, files) ==
  LET tags == Keys(c) \cup
                UNION { Range(Extracted[files[i]].tags) : i \in 1..Len(files) }
  IN  \A tag \in tags :
        Count(c, tag) = ReadableOccurrences(files, Len(files), tag)

C14_UnreadableFileNeverAborts ==
  /\ ret.op = "scan_markdown_files_for_tags" =>
       /\ ret.value = Len(analysis.md_files)
       /\ CountsReadableFiles(tag_counts, analysis.md_files)
  /\ analysis.pc = "done" =>
       CountsReadableFiles(analysis.result, analysis.md_files)

\* the first file is unreadable and the two after it are read, by the scan
\* and by workers of more than one chunk
C14_Witness ==
  /\ ret.op = "scan_markdown_files_for_tags"
  /\ analysis.pc = "done"
  /\ Len(analysis.file_chunks) >= 2
  /\ ~analysis.md_files[1].readable
  /\ analysis.md_files[2].readable
  /\ analysis.md_files[3].readable
  /\ tag_counts # << >>
  /\ Keys(analysis.result) = Keys(tag_counts)

(***************************************************************************)
(* C15  A file that cannot be read adds nothing to any table: the tables   *)
(* after the scan are those of a scan without that file.  The code counts  *)
(* the file's name pattern (lines 845-849) before it opens the file (line  *)
(* 852), so file_patterns does count the unreadable file.                  *)
(***************************************************************************)
ReadableFiles(md_files) == SelectSeq(md_files, LAMBDA f : f.readable)

C15_UnreadableFileLeavesNoTrace ==
  ret.op = "scan_markdown_files_for_tags" =>
    CurrentTables = ScanFiles(ResetTables, ReadableFiles(ret.args.md_files))

(***************************************************************************)
(* TagAnalyzer.interactive_water_level_adjustment: the prompts of lines    *)
(* 669-789.  dialog holds the locals, the prompt that is waiting (pc), the *)
(* prompt answered last with its response, how each level was settled, and *)
(* the number of rejected level entries.                                   *)
(***************************************************************************)
\* the digits of s as a number
RECURSIVE DigitsValue(_)
DigitsValue(s) ==
  IF s = << >> THEN 0
  ELSE 10 * DigitsValue(SubSeq(s, 1, Len(s) - 1))
         + (CHOOSE v \in 0..9 : DigitChars[v + 1] = s[Len(s)])

\* int(response) of a stripped response: an optional sign and digits, and
\* ValueError (ok FALSE) for anything else
ParseInt(s) ==
  LET signed == s # << >> /\ s[1] \in {"+", "-"}
      digits == IF signed THEN Tail(s) ELSE s
  IN  IF digits # << >> /\ \A i \in 1..Len(digits) : IsDigitChar(digits[i])
        THEN [ok |-> TRUE,
              value |-> IF signed /\ s[1] = "-" THEN -DigitsValue(digits)
                                                ELSE DigitsValue(digits)]
        ELSE [ok |-> FALSE, value |-> 0]

\* lines 722-727
scheme_map ==
  [k \in { <<DigitChars[v + 1]>> : v \in 1..9 } \cup {<<"1","0">>, <<"1","1">>, <<"1","2">>} |->
     CASE k = <<"1">> -> "rainbow"   [] k = <<"2">> -> "terrain"
       [] k = <<"3">> -> "ocean"     [] k = <<"4">> -> "sunset"
       [] k = <<"5">> -> "forest"    [] k = <<"6">> -> "desert"
       [] k = <<"7">> -> "arctic"    [] k = <<"8">> -> "lava"
       [] k = <<"9">> -> "viridis"   [] k = <<"1","0">> -> "turbo"
       [] k = <<"1","1">> -> "hsl"   [] OTHER -> "hsl_inverted"]

\* default_tag_level and default_pattern_level
DefaultLevel == 30

\* the test of lines 686 and 755 that lets every entry through
NeverTooLow(level) == FALSE

\* lines 686 and 755
TooLow(level) == level < 1

LevelField(space) == IF space = "tag" THEN "tag_level" ELSE "pattern_level"
SchemeField(space) ==
  IF space = "tag" THEN "tag_color_scheme" ELSE "file_color_scheme"
HowField(space) == IF space = "tag" THEN "tag_how" ELSE "pattern_how"
IncludeField(space) ==
  IF space = "tag" THEN "include_tags" ELSE "include_patterns"

\* line 791
Return(d) ==
  [d EXCEPT !.pc = "returned",
            !.result = <<IF d.include_tags THEN d.tag_level ELSE 0,
                         IF d.include_patterns THEN d.pattern_level ELSE 0,
                         d.tag_color_scheme, d.file_color_scheme>>]

\* lines 734-739 and 786-788: what follows the questions about the tags
AfterTags(d) ==
  IF file_patterns # << >>
    THEN [d EXCEPT !.pc = "include_patterns"]
    ELSE Return([d EXCEPT !.include_patterns = FALSE, !.pattern_how = "none"])

\* what follows the questions about a space
AfterSpace(d, space) == IF space = "tag" THEN AfterTags(d) ELSE Return(d)

\* lines 669-672 and 740-743: the answer to "Include ... color groups?"
AnswerInclude(d, space, response) ==
  IF Lower(Strip(response)) = <<"n">>
    THEN AfterSpace([d EXCEPT ![IncludeField(space)] = FALSE,
                              ![HowField(space)] = "declined"], space)
    ELSE [d EXCEPT !.pc = LevelField(space)]

\* lines 706-727: the level is settled, the scheme is asked for next
ToScheme(d, space) ==
  [d EXCEPT !.pc = SchemeField(space),
            !.scheme_map_bound = @ \/ space = "tag"]

Rejected(d) == [d EXCEPT !.rejected = Min(@ + 1, MaxRejected)]

\* lines 676-703 and 747-772: the answer to "Enter ... water level"
AnswerLevel(d, space, response) ==
  LET stripped == Strip(response)
      parsed == ParseInt(stripped)
  IN  IF stripped = << >>
        THEN ToScheme([d EXCEPT ![LevelField(space)] = DefaultLevel,
                                ![HowField(space)] = "default"], space)
      ELSE IF ~parsed.ok THEN Rejected(d)
      ELSE IF TooLow(parsed.value)
        THEN Rejected([d EXCEPT ![LevelField(space)] = parsed.value])
      ELSE [d EXCEPT ![LevelField(space)] = parsed.value,
                     !.pc = IF space = "tag" THEN "tag_confirm"
                                             ELSE "pattern_confirm"]

\* lines 694-696 and 763-765: the answer to "Use this ... water level?"
AnswerConfirm(d, space, response) ==
  IF Lower(Strip(response)) = <<"y">>
    THEN ToScheme([d EXCEPT ![HowField(space)] = "confirmed"], space)
    ELSE [d EXCEPT !.pc = LevelField(space)]

\* lines 729-737 and 775-784: the answer to "Select ... color scheme";
\* scheme_map is a local bound only where the tag questions were asked
AnswerScheme(d, space, response) ==
  LET stripped == Strip(response) IN
  IF stripped = << >> THEN AfterSpace(d, space)
  ELSE IF ~d.scheme_map_bound THEN [d EXCEPT !.pc = "raised"]
  ELSE IF stripped \in DOMAIN scheme_map
    THEN AfterSpace([d EXCEPT ![SchemeField(space)] = scheme_map[stripped]],
                    space)
  ELSE d

Answer(d, response) ==
  CASE d.pc = "include_tags"      -> AnswerInclude(d, "tag", response)
    [] d.pc = "tag_level"         -> AnswerLevel(d, "tag", response)
    [] d.pc = "tag_confirm"       -> AnswerConfirm(d, "tag", response)
    [] d.pc = "tag_color_scheme"  -> AnswerScheme(d, "tag", response)
    [] d.pc = "include_patterns"  -> AnswerInclude(d, "pattern", response)
    [] d.pc = "pattern_level"     -> AnswerLevel(d, "pattern", response)
    [] d.pc = "pattern_confirm"   -> AnswerConfirm(d, "pattern", response)
    [] d.pc = "file_color_scheme" -> AnswerScheme(d, "pattern", response)

(***************************************************************************)
(* Specification SpecDialog: one call of                                   *)
(* interactive_water_level_adjustment, the user answering each prompt with *)
(* any of the responses, or closing the input                              *)
(***************************************************************************)
Responses ==
  { << >>, <<" ">>, <<"n">>, <<"N"," ">>, <<"y">>, <<"Y">>, <<"a","b","c">>,
    <<"0">>, <<"-","3">>, <<"5">>, <<" ","1","2"," ">>, <<"2",".","5">> }

Prompts ==
  { "include_tags", "tag_level", "tag_confirm", "tag_color_scheme",
    "include_patterns", "pattern_level", "pattern_confirm",
    "file_color_scheme" }

DialogCorpora == << << >>, <<NotesFile, DbFile>> >>

InitDialog ==
  /\ exclusions = {}
  /\ \E c \in 1..Len(DialogCorpora) :
       LET t == ScanTables(ResetTables, DialogCorpora[c]) IN
       /\ tag_counts = t.tag_counts
       /\ conversation_tags = t.conversation_tags
       /\ keyword_tags = t.keyword_tags
       /\ file_patterns = t.file_patterns
  /\ n_adds = 0
  /\ ret = [op |-> "init", args |-> NoArgs, value |-> 0]
  /\ analysis = NotCalled
  /\ disk = NoDisk
  /\ dialog = [pc                |-> "include_tags",
               include_tags      |-> TRUE,
               tag_level         |-> 0,
               tag_color_scheme  |-> "ocean",
               include_patterns  |-> TRUE,
               pattern_level     |-> 0,
               file_color_scheme |-> "sunset",
               scheme_map_bound  |-> FALSE,
               result            |-> << >>,
               prompt            |-> "none",
               response          |-> << >>,
               tag_how           |-> "open",
               pattern_how       |-> "open",
               rejected          |-> 0]

\* the user answers the prompt that is waiting
UserAnswers ==
  /\ dialog.pc \in Prompts
  /\ \E response \in Responses :
       dialog' = [Answer(dialog, response) EXCEPT !.prompt = dialog.pc,
                                                  !.response = response]
  /\ UNCHANGED <<registry, n_adds, ret, analysis, disk>>

\* input() raises EOFError: the call ends without a result
InputCloses ==
  /\ dialog.pc \in Prompts
  /\ dialog' = [dialog EXCEPT !.pc = "raised", !.prompt = dialog.pc,
                              !.response = << >>]
  /\ UNCHANGED <<registry, n_adds, ret, analysis, disk>>

NextDialog == UserAnswers \/ InputCloses

SpecDialog == InitDialog /\ [][NextDialog]_vars

(***************************************************************************)
(* C16  An entry for a water level that is no number, or a number below 1, *)
(* is answered by the same prompt again and is never the result: a         *)
(* returned level is 0 exactly when the space was declined (or there are   *)
(* no file patterns), else the default 30 of an empty response or an       *)
(* integer >= 1 the user entered and confirmed with 'y'.                   *)
(***************************************************************************)
\* a response to a level prompt that is neither empty nor an integer >= 1
InvalidLevel(response) ==
  /\ Strip(response) # << >>
  /\ ~ParseInt(Strip(response)).ok \/ ParseInt(Strip(response)).value < 1

LevelSettled(level, how) ==
  /\ how \in {"declined", "none", "default", "confirmed"}
  /\ level = 0 <=> how \in {"declined", "none"}
  /\ how = "default" => level = DefaultLevel
  /\ how = "confirmed" =>
       /\ level >= 1
       /\ \E response \in Responses :
            /\ ParseInt(Strip(response)).ok
            /\ ParseInt(Strip(response)).value = level

C16_InvalidLevelIsAskedAgain ==
  /\ (dialog.prompt \in {"tag_level", "pattern_level"}
        /\ dialog.pc # "raised" /\ InvalidLevel(dialog.response))
       => dialog.pc = dialog.prompt
  /\ dialog.pc = "returned" =>
       /\ LevelSettled(dialog.result[1], dialog.tag_how)
       /\ LevelSettled(dialog.result[2], dialog.pattern_how)
       /\ dialog.pattern_how = "none" <=> file_patterns = << >>

\* after at least two rejected entries the tags got a confirmed level and
\* the file patterns the default
C16_Witness ==
  /\ dialog.pc = "returned"
  /\ dialog.rejected = MaxRejected
  /\ dialog.tag_how = "confirmed"
  /\ dialog.result[1] = 12
  /\ dialog.pattern_how = "default"
  /\ dialog.result[2] = DefaultLevel

(***************************************************************************)
(* The labels generate_color_groups takes into the ranking of a space      *)
(***************************************************************************)
\* lines 160 and 178-186: the keys of above_water_tags, none when the tag
\* space is not included
TagsTreatedEligible(water_level) ==
  IF Included(water_level)
    THEN Keys(AboveWater(get_filtered_tags(DefaultMinCount), water_level))
    ELSE {}

\* lines 162, 218 and 230-231: the keys of above_water_patterns
PatternsTreatedEligible(file_water_level) ==
  IF Included(file_water_level) /\ file_patterns # << >>
    THEN Keys(AboveWater(file_patterns, file_water_level))
    ELSE {}

\* eligibility never grows from a threshold of levels to a higher one
NeverGrows(levels) ==
  LET tags == [w \in levels |-> TagsTreatedEligible(w)]
      patterns == [w \in levels |-> PatternsTreatedEligible(w)]
  IN  \A w1 \in levels, w2 \in levels :
        w1 <= w2 => /\ tags[w2] \subseteq tags[w1]
                    /\ patterns[w2] \subseteq patterns[w1]

\* the groups returned are the eligible labels, cut to the slots
ReturnedAreEligible ==
  Generated =>
    LET tag_slots == TagSlots(Included(ret.args.water_level),
                              Included(ret.args.file_water_level))
        file_slots == FileSlots(Included(ret.args.water_level),
                                Included(ret.args.file_water_level))
    IN  /\ Len(ReturnedTagGroups) =
             Min(Cardinality(TagsTreatedEligible(ret.args.water_level)),
                 tag_slots)
        /\ Len(ReturnedFileGroups) =
             Min(Cardinality(PatternsTreatedEligible(ret.args.file_water_level)),
                 file_slots)

(***************************************************************************)
(* C17  For a fixed registry and space and thresholds w1 <= w2, both at    *)
(* least 1, the labels eligible under w2 are among those eligible under    *)
(* w1.                                                                     *)
(***************************************************************************)
C17_RaisingThresholdNeverAdds ==
  /\ NeverGrows(1..MaxWaterLevel)
  /\ ReturnedAreEligible

\* the original statement: the same for all thresholds from 0 on.  A
\* threshold of 0 leaves the space out, so no label is eligible under 0
C17_FromZero ==
  NeverGrows(0..MaxWaterLevel)

\* groups generated at the highest threshold, which some tags and patterns
\* meet and which leaves out labels the threshold below it lets in
C17_Witness ==
  /\ Generated
  /\ ret.args.water_level = MaxWaterLevel
  /\ ret.args.file_water_level = MaxWaterLevel
  /\ ReturnedTagGroups # << >>
  /\ ReturnedFileGroups # << >>
  /\ Cardinality(TagsTreatedEligible(MaxWaterLevel))
       < Cardinality(TagsTreatedEligible(MaxWaterLevel - 1))
  /\ Cardinality(PatternsTreatedEligible(MaxWaterLevel))
       < Cardinality(PatternsTreatedEligible(MaxWaterLevel - 1))

(***************************************************************************)
(* calculate_water_level on a scanned registry.  The corpora have no tag,  *)
(* fewer than 10 tags, 9 and 10 tags, and 12 tags next to one that occurs  *)
(* 20, 30, 31 or 42 times.                                                 *)
(***************************************************************************)
InitWater ==
  /\ \E file \in ExclusionFiles : exclusions = load_exclusions(file)
  /\ \E md_files \in WaterCorpora :
       LET t == ScanTables(ResetTables, md_files) IN
       /\ tag_counts = t.tag_counts
       /\ conversation_tags = t.conversation_tags
       /\ keyword_tags = t.keyword_tags
       /\ file_patterns = t.file_patterns
  /\ n_adds = 0
  /\ disk = NoDisk
  /\ dialog = NoDialog
  /\ ret = [op |-> "init", args |-> NoArgs, value |-> 0]
  /\ analysis = NotCalled

\* add_tag calls come before the water level is calculated
WaterAddTag ==
  /\ n_adds < MaxGroupAdds
  /\ ret.op # "calculate_water_level"
  /\ \E tag \in TagInputs, tag_type \in TagTypes :
       /\ add_tag(tag, tag_type)
       /\ ret' = [op |-> "add_tag",
                  args |-> [tag |-> tag, tag_type |-> tag_type],
                  value |-> 0]
  /\ n_adds' = n_adds + 1
  /\ UNCHANGED <<analysis, disk, dialog>>

\* lines 73-108, called at line 604 for the suggested level
CalculateWaterLevel ==
  /\ ret.op # "calculate_water_level"
  /\ ret' = [op |-> "calculate_water_level", args |-> NoArgs,
             value |-> calculate_water_level]
  /\ UNCHANGED <<registry, n_adds, analysis, disk, dialog>>

NextWater == WaterAddTag \/ CalculateWaterLevel

SpecWater == InitWater /\ [][NextWater]_vars

\* the tags that survive the exclusion filter
SurvivingTags ==
  { k \in Keys(tag_counts) : ~(k \in keyword_tags /\ Lower(k) \in exclusions) }

\* the count at the median rank: at most half of the tags have a higher
\* count, and more than half have that count or a higher one
MedianCount ==
  CHOOSE v \in { Count(tag_counts, k) : k \in SurvivingTags } :
    /\ Cardinality({ k \in SurvivingTags : Count(tag_counts, k) > v })
         <= Cardinality(SurvivingTags) \div 2
    /\ Cardinality({ k \in SurvivingTags : Count(tag_counts, k) >= v })
         > Cardinality(SurvivingTags) \div 2

MaxCount ==
  CHOOSE v \in { Count(tag_counts, k) : k \in SurvivingTags } :
    \A k \in SurvivingTags : Count(tag_counts, k) <= v

Calculated == ret.op = "calculate_water_level"

(***************************************************************************)
(* C18  calculate_water_level returns 30 when no tag survives the filter,  *)
(* max(2, count at the median rank) when fewer than 10 distinct tags       *)
(* survive, otherwise max(2, floor(0.3 * highest count)) when the highest  *)
(* count is at most 30 and 30 when it is above 30.                         *)
(***************************************************************************)
C18_WaterLevelByCases ==
  Calculated =>
    ret.value =
      IF SurvivingTags = {} THEN 30
      ELSE IF Cardinality(SurvivingTags) < 10 THEN Max(2, MedianCount)
      ELSE IF MaxCount <= 30 THEN Max(2, (3 * MaxCount) \div 10)
      ELSE 30

\* ten or more tags, the highest count at most 30, and 0.3 of it above 2
C18_Witness ==
  /\ Calculated
  /\ Cardinality(SurvivingTags) >= 10
  /\ MaxCount <= 30
  /\ ret.value > 2
  /\ ret.value < 30

\* the labels of the groups returned, by space
ReturnedTagLabels ==
  { GroupLabel(ReturnedTagGroups[i]) : i \in 1..Len(ReturnedTagGroups) }

ReturnedFileLabels ==
  { SubSeq(ReturnedFileGroups[i].query, Len(FileQueryPrefix) + 1,
           Len(ReturnedFileGroups[i].query)) :
      i \in 1..Len(ReturnedFileGroups) }

(***************************************************************************)
(* C19  When file_water_level is not supplied, the file threshold is the   *)
(* one the 90th-percentile rule of lines 219-227 gives, and the file       *)
(* patterns that meet it are emitted, up to the file slots.                *)
(***************************************************************************)
C19_PercentileWhenNotSupplied ==
  (Generated /\ ret.args.file_water_level = None) =>
    LET meeting == Keys(AboveWater(file_patterns, PatternWaterLevel))
        file_slots == FileSlots(Included(ret.args.water_level), TRUE)
    IN  /\ ReturnedFileLabels \subseteq meeting
        /\ Cardinality(ReturnedFileLabels)
             = Min(Cardinality(meeting), file_slots)

(***************************************************************************)
(* C20  For a tag threshold of 1 or more, every tag that survives the      *)
(* exclusion filter and occurs at least threshold times competes for the   *)
(* tag slots; when there are no more such tags than slots, all of them     *)
(* are emitted.                                                            *)
(***************************************************************************)
C20_EveryTagAtThresholdCompetes ==
  (Generated /\ ret.args.water_level >= 1) =>
    LET competing == { k \in SurvivingTags :
                         Count(tag_counts, k) >= ret.args.water_level }
        tag_slots == TagSlots(TRUE, Included(ret.args.file_water_level))
    IN  /\ ReturnedTagLabels \subseteq competing
        /\ Cardinality(competing) <= tag_slots
             => ReturnedTagLabels = competing

(***************************************************************************)
(* C21  For a scheme name that is not a recognised one, and every rank     *)
(* and total, _get_color_for_index returns the colour the rainbow scheme   *)
(* returns for the same rank and total.                                    *)
(***************************************************************************)
C21_UnknownSchemeIsRainbow ==
  (ret.op = "get_color_for_index" /\ ret.args.scheme \notin RecognisedSchemes)
    => /\ Len(ret.value) = 3
       /\ ret.value = get_color_for_index(ret.args.index, ret.args.total,
                                          "rainbow")

\* an unknown scheme at a rank past the first, where the rainbow and the
\* position gradients differ
C21_Witness ==
  /\ ret.op = "get_color_for_index"
  /\ ret.args.scheme = "Rainbow"
  /\ ret.args.index = 3
  /\ ret.args.total = 5
  /\ ret.value = <<216, 38, 194>>

(***************************************************************************)
(* TagAnalyzer._load_exclusions on an exclusions file drawn when the       *)
(* analyzer is constructed                                                 *)
(***************************************************************************)
MaxLines == 3

Newline == <<"\n">>

\* the lines a file is made of: blank ones, comments, an indented comment,
\* entries in both cases with blanks or a tab around them, a last line
\* without its newline, and an entry with a '#' inside
ExclusionLines ==
  { Newline, Blank \o Newline, Hash \o <<" ","s","t","o","p">> \o Newline,
    Blank \o Hash \o Api \o Newline, Blank \o ApiUpper \o Blank \o Newline,
    Api \o Newline, <<"\t">> \o ConvA \o Newline, Db,
    <<"a","#","b">> \o Newline }

RECURSIVE LinesUpTo(_)
LinesUpTo(n) ==
  IF n = 0 THEN { << >> }
  ELSE LET shorter == LinesUpTo(n - 1) IN
       shorter \cup { Append(ls, l) : ls \in { x \in shorter : Len(x) = n - 1 },
                                      l \in ExclusionLines }

LoadFiles ==
  { [exists |-> FALSE, lines |-> << >>] }
    \cup { [exists |-> TRUE, lines |-> ls] : ls \in LinesUpTo(MaxLines) }

InitLoad ==
  /\ tag_counts = << >>
  /\ conversation_tags = {}
  /\ keyword_tags = {}
  /\ exclusions = {}
  /\ file_patterns = << >>
  /\ n_adds = 0
  /\ disk = NoDisk
  /\ dialog = NoDialog
  /\ analysis = NotCalled
  /\ \E file \in LoadFiles :
       ret = [op |-> "call", args |-> file, value |-> 0]

\* line 22: self.exclusions = self._load_exclusions(exclusions_file)
LoadExclusions ==
  /\ ret.op = "call"
  /\ exclusions' = load_exclusions(ret.args)
  /\ ret' = [op |-> "load_exclusions", args |-> ret.args, value |-> 0]
  /\ UNCHANGED <<tag_counts, conversation_tags, keyword_tags, file_patterns,
                 n_adds, analysis, disk, dialog>>

NextLoad == LoadExclusions

SpecLoad == InitLoad /\ [][NextLoad]_vars

\* a line without the whitespace at its two ends
Trimmed(line) ==
  LET inked == { i \in 1..Len(line) : ~IsSpace(line[i]) } IN
  IF inked = {} THEN << >>
  ELSE SubSeq(line, CHOOSE i \in inked : \A k \in inked : i <= k,
                    CHOOSE i \in inked : \A k \in inked : i >= k)

(***************************************************************************)
(* C22  _load_exclusions returns the empty set when the exclusions file    *)
(* does not exist; when it exists the result is exactly the lowercased,    *)
(* whitespace-stripped lines that are not blank and do not begin with '#'. *)
(***************************************************************************)
C22_ExclusionsLoaded ==
  ret.op = "load_exclusions" =>
    LET lines == ret.args.lines
        kept == { i \in 1..Len(lines) :
                    /\ Trimmed(lines[i]) # << >>
                    /\ Head(Trimmed(lines[i])) # "#" }
    IN  IF ret.args.exists
          THEN exclusions = { Lower(Trimmed(lines[i])) : i \in kept }
          ELSE exclusions = {}

\* a file with a comment, an upper-case entry between blanks, and a blank
\* line: the one exclusion is the entry, stripped and lowercased
C22_Witness ==
  /\ ret.op = "load_exclusions"
  /\ ret.args.exists
  /\ ret.args.lines = << Hash \o <<" ","s","t","o","p">> \o Newline,
                         Blank \o ApiUpper \o Blank \o Newline,
                         Blank \o Newline >>
  /\ exclusions = {Api}

(***************************************************************************)
(* TagAnalyzer.get_tag_statistics and TagAnalyzer.save_analysis_report     *)
(***************************************************************************)
\* lines 566-579
get_tag_statistics ==
  LET filtered_tags == get_filtered_tags(DefaultMinCount) IN
  [total_unique_tags        |-> Len(tag_counts),
   filtered_unique_tags     |-> Len(filtered_tags),
   total_tag_occurrences    |-> SumValues(tag_counts),
   filtered_tag_occurrences |-> SumValues(filtered_tags),
   conversation_tags        |-> Cardinality(conversation_tags),
   keyword_tags             |-> Cardinality(keyword_tags),
   excluded_tags            |-> Len(tag_counts) - Len(filtered_tags),
   suggested_water_level    |-> calculate_water_level]

\* sorted(c.items(), key=lambda x: x[1], reverse=True): by count, the
\* higher first, equal counts in the order of the dict
SortedByCount(c) ==
  LET Place(i) == 1 + Cardinality({ j \in 1..Len(c) :
                                      \/ c[j].n > c[i].n
                                      \/ c[j].n = c[i].n /\ j < i })
  IN  [p \in 1..Len(c) |-> c[CHOOSE i \in 1..Len(c) : Place(i) = p]]

\* the first 20 of the sorted items
Top20(c) == SubSeq(SortedByCount(c), 1, Min(20, Len(c)))

\* lines 892-893
ReportTags(tag_water_level) ==
  AboveWater(get_filtered_tags(DefaultMinCount), tag_water_level)

\* lines 896-899: nothing when file_water_level is None or 0
ReportPatterns(file_water_level) ==
  IF file_patterns # << >> /\ file_water_level # None /\ file_water_level # 0
    THEN AboveWater(file_patterns, file_water_level)
    ELSE << >>

\* lines 901-922: the report written to tag_analysis_report.json
save_analysis_report(tag_water_level, file_water_level, tag_color_scheme, file_color_scheme) ==
  LET above_water_tags == ReportTags(tag_water_level)
      above_water_patterns == ReportPatterns(file_water_level)
  IN  [statistics             |-> get_tag_statistics,
       tag_water_level_used   |-> tag_water_level,
       file_water_level_used  |-> file_water_level,
       tag_color_scheme       |-> tag_color_scheme,
       file_color_scheme      |-> file_color_scheme,
       tags_in_graph          |-> Len(above_water_tags),
       file_patterns_in_graph |-> Len(above_water_patterns),
       total_color_groups     |-> Len(above_water_tags)
                                    + Len(above_water_patterns),
       top_20_tags            |-> Top20(above_water_tags),
       top_20_file_patterns   |-> Top20(above_water_patterns),
       all_filtered_tags      |->
         SortedByCount(get_filtered_tags(DefaultMinCount)),
       all_file_patterns      |-> SortedByCount(file_patterns)]

(***************************************************************************)
(* Specification SpecReads: the registry under add_tag calls and scans,    *)
(* with the operations that read it called at any time in between          *)
(***************************************************************************)
GetTagStatistics ==
  /\ ret.op # "get_tag_statistics"
  /\ ret' = [op |-> "get_tag_statistics", args |-> NoArgs,
             value |-> get_tag_statistics]
  /\ UNCHANGED <<registry, n_adds, analysis, disk, dialog>>

\* the report file is written; the levels are the integers the dialogue
\* returns, the file level may be left at its default None
SaveAnalysisReport ==
  /\ \E tag_water_level \in 0..MaxWaterLevel, file_water_level \in WaterLevels,
        schemes \in SchemePairs :
       LET report == save_analysis_report(tag_water_level, file_water_level,
                                          schemes[1], schemes[2])
       IN  /\ disk' = [templates |-> << >>, report |-> report]
           /\ ret' = [op |-> "save_analysis_report",
                      args |-> [water_level |-> tag_water_level,
                                file_water_level |-> file_water_level,
                                tag_color_scheme |-> schemes[1],
                                file_color_scheme |-> schemes[2]],
                      value |-> 0]
  /\ UNCHANGED <<registry, n_adds, analysis, dialog>>

\* the report is the last thing written (convert_chatgpt.py line 384):
\* the other operations come before it
Unreported == disk = NoDisk

\* add_tag, once after the construction and once after each scan
ReadsAddTag == Unreported /\ n_adds = 0 /\ AddTag

ReadsScan == Unreported /\ ScanMarkdownFiles

ReadsFilteredTags == Unreported /\ GetFilteredTags

ReadsWaterLevel == Unreported /\ CalculateWaterLevel

ReadsColorGroups == Unreported /\ GenerateColorGroups

ReadsStatistics == Unreported /\ GetTagStatistics

ReadsReport == Unreported /\ SaveAnalysisReport

NextReads ==
  \/ ReadsAddTag
  \/ ReadsScan
  \/ ReadsFilteredTags
  \/ ReadsWaterLevel
  \/ ReadsColorGroups
  \/ ReadsStatistics
  \/ ReadsReport

SpecReads == Init /\ [][NextReads]_vars

\* the operations that read the registry
ReadOps ==
  { "get_filtered_tags", "calculate_water_level", "generate_color_groups",
    "get_tag_statistics", "save_analysis_report" }

(***************************************************************************)
(* C23  get_filtered_tags, calculate_water_level, generate_color_groups,   *)
(* get_tag_statistics and save_analysis_report leave tag_counts,           *)
(* file_patterns, conversation_tags and keyword_tags unchanged, and no     *)
(* operation after construction, the scan included, changes the exclusion  *)
(* set.                                                                    *)
(***************************************************************************)
C23_ReadsLeaveRegistry ==
  [][ /\ ret'.op \in ReadOps => CurrentTables' = CurrentTables
      /\ exclusions' = exclusions ]_vars

\* the report is written from a registry that a scan filled over earlier
\* counts, with an exclusion loaded at construction still in place
C23_Witness ==
  /\ ret.op = "save_analysis_report"
  /\ disk.report.tags_in_graph > 0
  /\ exclusions = {Api}
  /\ tag_counts # << >>
  /\ file_patterns # << >>

(***************************************************************************)
(* C24  After any sequence of add_tag calls and scans the keys of          *)
(* tag_counts are the union of conversation_tags and keyword_tags and      *)
(* every count is at least 1; an add_tag call raises the count of one      *)
(* label, the tag without its leading '#', by 1 and leaves every other     *)
(* count and file_patterns as they were.                                   *)
(***************************************************************************)
KeysAreOrigins ==
  /\ Keys(tag_counts) = conversation_tags \cup keyword_tags
  /\ \A i \in 1..Len(tag_counts) : tag_counts[i].n >= 1
  /\ Cardinality(Keys(tag_counts)) = Len(tag_counts)

AddTagCountsOneLabel ==
  ret'.op = "add_tag" =>
    LET tag == ret'.args.tag
        label == IF tag # << >> /\ tag[1] = "#"
                   THEN SubSeq(tag, 2, Len(tag)) ELSE tag
    IN  /\ Count(tag_counts', label) = Count(tag_counts, label) + 1
        /\ \A k \in (Keys(tag_counts) \cup Keys(tag_counts')) \ {label} :
             Count(tag_counts', k) = Count(tag_counts, k)
        /\ file_patterns' = file_patterns

C24_CountsFollowOrigins == []KeysAreOrigins /\ [][AddTagCountsOneLabel]_vars

\* add_tag('#api') on a scanned registry that counted api before
C24_Witness ==
  /\ ret.op = "add_tag"
  /\ ret.args.tag = Hash \o Api
  /\ Count(tag_counts, Api) >= 3
  /\ file_patterns # << >>
  /\ conversation_tags # {}

(***************************************************************************)
(* C25  For 0 <= rank < total, _get_color_for_index takes                  *)
(* t = rank / (total - 1) when total > 1 and t = 0 otherwise, so t is in   *)
(* 0..1, 0 at rank 0 and 1 at the last rank; with total = 1 the rainbow    *)
(* scheme gives the colour of hue 0, saturation 0.7, lightness 0.5, whose  *)
(* red is above its equal green and blue.                                  *)
(***************************************************************************)
C25_RankNormalised ==
  (ret.op = "get_color_for_index" /\ ret.args.index < ret.args.total) =>
    LET rank == ret.args.index
        total == ret.args.total
        t == Position(rank, total)
    IN  /\ t.d > 0 /\ 0 <= t.n /\ t.n <= t.d
        /\ total > 1 => t.n * (total - 1) = rank * t.d
        /\ total <= 1 => t.n = 0
        /\ rank = 0 => t.n = 0
        /\ (total > 1 /\ rank = total - 1) => t.n = t.d
        /\ ret.args.scheme = "hsl" => ret.value = Hsl(t)
        /\ (ret.args.scheme = "rainbow" /\ total = 1) =>
             /\ ret.value = hsl_to_rgb([n |-> 0, d |-> 1], 70, 50)
             /\ ret.value[1] > ret.value[2]
             /\ ret.value[2] = ret.value[3]

\* the scenario: one label in the space, the rainbow scheme
C25_Witness ==
  /\ ret.op = "get_color_for_index"
  /\ ret.args.scheme = "rainbow"
  /\ ret.args.index = 0
  /\ ret.args.total = 1
  /\ ret.value = <<216, 38, 38>>

(***************************************************************************)
(* C26  _calculate_bayesian_score takes tf = count / total (0 when total   *)
(* is 0) and a prior of 1.0, times 1.2 for a 'conv-' label, times 1.5 for  *)
(* a file pattern, and for another label times 0.5 when shorter than 4 or  *)
(* times 1.1 when longer than 8; the score is                              *)
(* tf * log(totalDocs / (1 + docFreq)) * prior when docFreq and totalDocs  *)
(* are supplied and totalDocs > 0, and tf * prior * log(count + 1)         *)
(* otherwise.  Scores are in units of 1e-5, logarithms in thousandths.     *)
(***************************************************************************)
\* the prior in hundredths: tenths times tenths
ClaimedPrior(term, is_file_pattern) ==
  (IF StartsWith(term, ConvPrefix) THEN 12 ELSE 10)
    * (IF is_file_pattern THEN 15
       ELSE IF Len(term) < 4 THEN 5
       ELSE IF Len(term) > 8 THEN 11
       ELSE 10)

C26_ScoreByFormula ==
  ret.op = "calculate_bayesian_score" =>
    LET a == ret.args
        prior == ClaimedPrior(a.term, a.is_file_pattern)
        log == IF a.doc_freq # None /\ a.total_docs # None /\ a.total_docs > 0
                 THEN LnMilli(a.total_docs) - LnMilli(1 + a.doc_freq)
                 ELSE LnMilli(a.count + 1)
    IN  IF a.total_terms = 0
          THEN ret.value.num = 0
          ELSE ret.value.num * a.total_terms
                 = a.count * prior * log * ret.value.den

\* a 'conv-' label longer than 8 with both document numbers supplied
C26_Witness ==
  /\ ret.op = "calculate_bayesian_score"
  /\ ret.args.term = ConvPrefix \o <<"2","0","2","4">>
  /\ ~ret.args.is_file_pattern
  /\ ret.args.doc_freq = 2
  /\ ret.args.total_docs = 10
  /\ ret.args.count = MaxScoreCount
  /\ ret.args.total_terms = MaxScoreCount
  /\ ret.value.num > 0

(***************************************************************************)
(* Specification SpecPattern: a scan of files whose names are drawn from   *)
(* PatternNames                                                            *)
(***************************************************************************)
ScanNamedFiles ==
  /\ ret.op = "init"
  /\ \E md_files \in NamedCorpora(MaxNamed) :
       /\ scan_markdown_files_for_tags(md_files)
       /\ ret' = [op |-> "scan_markdown_files_for_tags",
                  args |-> [md_files |-> md_files, fresh |-> TRUE],
                  value |-> Len(md_files)]
  /\ UNCHANGED <<n_adds, analysis, disk, dialog>>

NextPattern == ScanNamedFiles

SpecPattern == Init /\ [][NextPattern]_vars

\* the name without its final extension
WithoutExtension(name) ==
  LET dots == { i \in 1..Len(name) : name[i] = "." } IN
  IF dots = {} THEN name
  ELSE SubSeq(name, 1, (CHOOSE i \in dots : \A k \in dots : k <= i) - 1)

\* the tokens of a name: the longest stretches without hyphen, underscore
\* or whitespace, as <<first index, last index>>
Tokens(base) ==
  { r \in (1..Len(base)) \X (1..Len(base)) :
      /\ r[1] <= r[2]
      /\ \A i \in r[1]..r[2] : base[i] \notin {"-", "_", " ", "\t", "\n"}
      /\ r[1] = 1 \/ base[r[1] - 1] \in {"-", "_", " ", "\t", "\n"}
      /\ r[2] = Len(base) \/ base[r[2] + 1] \in {"-", "_", " ", "\t", "\n"} }

Qualifies(token) ==
  /\ \E i \in 1..Len(token) : token[i] \notin DigitSet
  /\ Lower(token) \notin StopWords
  /\ Len(token) >= 3

\* the first token that qualifies, << >> when none does
ClaimedPattern(name) ==
  LET base == WithoutExtension(name)
      good == { r \in Tokens(base) : Qualifies(SubSeq(base, r[1], r[2])) }
  IN  IF good = {} THEN << >>
      ELSE LET first == CHOOSE r \in good : \A q \in good : r[1] <= q[1]
           IN  SubSeq(base, first[1], first[2])

(***************************************************************************)
(* C27  _extract_file_pattern strips only the final extension, splits on   *)
(* runs of hyphen, underscore or whitespace and returns the first token    *)
(* that is not purely numeric, not a stop word in any case, and at least 3 *)
(* characters long; when no token qualifies the scan adds no entry to      *)
(* file_patterns for that file.                                            *)
(***************************************************************************)
C27_FirstQualifyingToken ==
  ret.op = "scan_markdown_files_for_tags" =>
    LET md_files == ret.args.md_files
        With(pattern) == { i \in 1..Len(md_files) :
                             ClaimedPattern(md_files[i].name) = pattern }
    IN  /\ \A i \in 1..Len(md_files) :
             extract_file_pattern(md_files[i].name)
               = ClaimedPattern(md_files[i].name)
        /\ Keys(file_patterns) =
             { ClaimedPattern(md_files[i].name) : i \in 1..Len(md_files) }
               \ { << >> }
        /\ \A pattern \in Keys(file_patterns) :
             Count(file_patterns, pattern) = Cardinality(With(pattern))
        /\ Cardinality(Keys(file_patterns)) = Len(file_patterns)

\* 'the-2024_report.md' gives report and '01_the_db.md' gives nothing
C27_Witness ==
  /\ ret.op = "scan_markdown_files_for_tags"
  /\ Len(ret.args.md_files) = 2
  /\ ret.args.md_files[1] = DbFile
  /\ ret.args.md_files[2].name
       = <<"t","h","e","-","2","0","2","4","_","r","e","p","o","r","t",
           ".","m","d">>
  /\ file_patterns = <<[key |-> <<"r","e","p","o","r","t">>, n |-> 1]>>

(***************************************************************************)
(* Specification SpecConvert: ChatGPTConverter.convert.  save_conversation *)
(* feeds the registry through add_tag while the markdown files are         *)
(* written; then come the scan of those files, the dialogue, the           *)
(* configuration and the report.  ret.op is the call that returned last,   *)
(* disk.md_files the markdown files of the output directory.               *)
(***************************************************************************)
ConvertCorpora ==
  { << >>, <<NotesFile, DbFile>>, <<DbFile, TiesFile, NotesFile>>,
    <<CountsFile>> }

InitConvert ==
  /\ tag_counts = << >>
  /\ conversation_tags = {}
  /\ keyword_tags = {}
  /\ \E file \in ExclusionFiles : exclusions = load_exclusions(file)
  /\ file_patterns = << >>
  /\ n_adds = 0
  /\ \E md_files \in ConvertCorpora :
       disk = [templates |-> <<GraphTemplate(1), AppFile>>, exists |-> FALSE,
               obsidian |-> << >>, md_files |-> md_files, report |-> << >>]
  /\ dialog = NoDialog
  /\ ret = [op |-> "init", args |-> NoArgs, value |-> 0]
  /\ analysis = NotCalled

\* convert_chatgpt.py lines 258-262: an add_tag call of save_conversation
ConvertAddTag ==
  /\ ret.op \in {"init", "add_tag"}
  /\ n_adds < MaxAdds
  /\ \E tag \in TagInputs, tag_type \in TagTypes :
       /\ add_tag(tag, tag_type)
       /\ ret' = [op |-> "add_tag",
                  args |-> [tag |-> tag, tag_type |-> tag_type],
                  value |-> 0]
  /\ n_adds' = n_adds + 1
  /\ UNCHANGED <<analysis, disk, dialog>>

\* convert_chatgpt.py line 372
ConvertScan ==
  /\ ret.op \in {"init", "add_tag"}
  /\ scan_markdown_files_for_tags(disk.md_files)
  /\ ret' = [op |-> "scan_markdown_files_for_tags", args |-> NoArgs,
             value |-> Len(disk.md_files)]
  /\ UNCHANGED <<n_adds, analysis, disk, dialog>>

\* the levels interactive_water_level_adjustment can return: 0, the
\* default, or an entry of at least 1; no file level without file patterns
PromptLevels == {0, DefaultLevel} \cup 1..MaxWaterLevel

\* convert_chatgpt.py line 375
ConvertPrompt ==
  /\ ret.op = "scan_markdown_files_for_tags"
  /\ \E tag_level \in PromptLevels, pattern_level \in PromptLevels,
        schemes \in SchemePairs :
       /\ file_patterns = << >> => pattern_level = 0
       /\ dialog' = [pc |-> "returned",
                     tag_water_level |-> tag_level,
                     file_water_level |-> pattern_level,
                     tag_color_scheme |-> schemes[1],
                     file_color_scheme |-> schemes[2]]
  /\ ret' = [op |-> "interactive_water_level_adjustment", args |-> NoArgs,
             value |-> 0]
  /\ UNCHANGED <<registry, n_adds, analysis, disk>>

\* convert_chatgpt.py lines 380-381
ConvertConfig ==
  /\ ret.op = "interactive_water_level_adjustment"
  /\ LET done == create_obsidian_config(disk, dialog.tag_water_level,
                   dialog.file_water_level, dialog.tag_color_scheme,
                   dialog.file_color_scheme)
     IN  /\ disk' = done.disk
         /\ ret' = [op |-> "create_obsidian_config", args |-> NoArgs,
                    value |-> done.outcome]
  /\ UNCHANGED <<registry, n_adds, analysis, dialog>>

\* convert_chatgpt.py lines 384-385
ConvertReport ==
  /\ ret.op = "create_obsidian_config"
  /\ ret.value = "returned"
  /\ disk' = [disk EXCEPT !.report =
                save_analysis_report(dialog.tag_water_level,
                  dialog.file_water_level, dialog.tag_color_scheme,
                  dialog.file_color_scheme)]
  /\ ret' = [op |-> "save_analysis_report", args |-> NoArgs, value |-> 0]
  /\ UNCHANGED <<registry, n_adds, analysis, dialog>>

NextConvert ==
  \/ ConvertAddTag
  \/ ConvertScan
  \/ ConvertPrompt
  \/ ConvertConfig
  \/ ConvertReport

SpecConvert == InitConvert /\ [][NextConvert]_vars

\* the calls of convert after the scan
AfterScan ==
  { "interactive_water_level_adjustment", "create_obsidian_config",
    "save_analysis_report" }

\* what has been done by now, as far as the state shows it
Prompted == dialog # NoDialog
ConfigWritten == HasFile(disk.obsidian, GraphName)
ReportWritten == disk.report # << >>

\* each step follows the step before it
StepsInOrder ==
  /\ ret'.op = "scan_markdown_files_for_tags"
       => ret.op \in {"init", "add_tag"} /\ ~Prompted
  /\ ret'.op = "interactive_water_level_adjustment"
       => ret.op = "scan_markdown_files_for_tags" /\ ~ConfigWritten
  /\ ret'.op = "create_obsidian_config"
       => ret.op = "interactive_water_level_adjustment" /\ ~ReportWritten
  /\ ret'.op = "save_analysis_report" => ret.op = "create_obsidian_config"
  /\ ret'.op = "add_tag" => ret.op \in {"init", "add_tag"}

\* the registry is the scan of the markdown files, and the colour groups
\* written are the ones generated from it
ScanDrivesConfig ==
  /\ (Prompted \/ ConfigWritten \/ ReportWritten) => ret.op \in AfterScan
  /\ ret.op \in AfterScan
       => CurrentTables = ScanFiles(ResetTables, disk.md_files)
  /\ ConfigWritten =>
       DictGet(FileNamed(disk.obsidian, GraphName).pairs, ColorGroupsKey)
         = generate_color_groups(dialog.tag_water_level, DefaultMaxGroups,
             dialog.file_water_level, dialog.tag_color_scheme,
             dialog.file_color_scheme)

(***************************************************************************)
(* C28  In convert the scan, the dialogue, the configuration and the       *)
(* report run in this order, and the registry behind the configuration is  *)
(* the scan's result: what add_tag counted during save_conversation is     *)
(* cleared by the scan before any later step reads the registry.           *)
(***************************************************************************)
C28_ScanThenPromptConfigReport ==
  []ScanDrivesConfig /\ [][StepsInOrder]_vars

\* the report is written after add_tag calls had counted tags, and colour
\* groups were emitted
C28_Witness ==
  /\ ret.op = "save_analysis_report"
  /\ n_adds = MaxAdds
  /\ ReportWritten
  /\ ConfigWritten
  /\ DictGet(FileNamed(disk.obsidian, GraphName).pairs, ColorGroupsKey) # << >>
  /\ exclusions # {}

(***************************************************************************)
(* C29  For the same registry, thresholds and schemes, tags_in_graph,      *)
(* file_patterns_in_graph and total_color_groups of the report equal the   *)
(* numbers of tag groups, file-pattern groups and groups that              *)
(* generate_color_groups emits.  The report counts every label at or above *)
(* its level (lines 892-899, 907-909): also with a tag level of 0, which   *)
(* leaves the tags out of the graph, and past the slots of a space.        *)
(***************************************************************************)
C29_ReportAgreesWithConfig ==
  ret.op = "save_analysis_report" =>
    LET groups == generate_color_groups(ret.args.water_level,
                    DefaultMaxGroups, ret.args.file_water_level,
                    ret.args.tag_color_scheme, ret.args.file_color_scheme)
    IN  /\ disk.report.tags_in_graph = Len(SelectSeq(groups, IsTagGroup))
        /\ disk.report.file_patterns_in_graph
             = Len(SelectSeq(groups, IsFileGroup))
        /\ disk.report.total_color_groups = Len(groups)

(***************************************************************************)
(* The message tree of a ChatGPT conversation: convert_chatgpt.py,        *)
(* _extract_messages_from_mapping (lines 92-110) and                       *)
(* _traverse_message_tree (lines 112-134).                                 *)
(***************************************************************************)

\* the node ids an export may use
MaxNodes == 3
NodeIds == 1..MaxNodes

\* the children one node may list
MaxChildren == 1
ChildSets == { c \in SUBSET NodeIds : Cardinality(c) <= MaxChildren }

\* line 99: the parent of a node is compared with None and with
\* 'client-created-root' only; any other parent is the id of some node
NoParent == "None"
ClientCreatedRoot == "client-created-root"
SomeParent == "node"

\* msg_data of a node: every node carries a message with one text part; the
\* first node of the export was created last, so that the order of the walk
\* and the order of the times differ
MessageOf(n) ==
  [id |-> n, parts |-> << <<"m">> >>,
   create_time |-> IF n = 1 THEN MaxNodes + 1 ELSE n]

\* the ids of a set as a list, lowest first
RECURSIVE Ascending(_)
Ascending(ids) ==
  IF ids = {} THEN << >>
  ELSE LET low == CHOOSE n \in ids : \A m \in ids : n <= m
       IN  <<low>> \o Ascending(ids \ {low})

\* the parents a node may name: the marker of a client-created root stands
\* at the first node of an export only
ParentsAt(n) ==
  IF n = 1 THEN {NoParent, ClientCreatedRoot, SomeParent}
           ELSE {NoParent, SomeParent}

\* a mapping: some of the ids, each with a parent and a list of children
\* among the ids, ids the mapping does not hold included
MappingOf(held, parents, children) ==
  [n \in held |-> [parent   |-> parents[n],
                   children |-> Ascending(children[n]),
                   message  |-> MessageOf(n)]]

\* line 159: '\n\n'.join(str(part) for part in content_parts if part)
RECURSIVE JoinParts(_)
JoinParts(parts) ==
  LET kept == SelectSeq(parts, LAMBDA part : part # << >>)
  IN  IF kept = << >> THEN << >>
      ELSE IF Len(kept) = 1 THEN kept[1]
      ELSE kept[1] \o <<"\n", "\n">> \o JoinParts(Tail(kept))

\* _parse_message, lines 136-182: the text joins the parts and created_at is
\* the time of the message
parse_message(msg_data) ==
  [uuid |-> msg_data.id,
   text |-> JoinParts(msg_data.parts),
   created_at |-> msg_data.create_time]

\* lines 112-134: a visited or unknown id returns at once (line 118); else
\* the id is marked, its message appended when it has a text, and the
\* children walked in their order with the same visited set
RECURSIVE traverse_message_tree(_, _, _)
RECURSIVE TraverseChildren(_, _, _)
traverse_message_tree(mapping, node_id, walk) ==
  IF node_id \in walk.visited \/ node_id \notin DOMAIN mapping
  THEN walk
  ELSE LET node == mapping[node_id]
           message == parse_message(node.message)
           entered ==
             [visited  |-> walk.visited \cup {node_id},
              messages |-> IF message.text # << >>
                           THEN Append(walk.messages, message)
                           ELSE walk.messages]
       IN  TraverseChildren(mapping, node.children, entered)

TraverseChildren(mapping, children, walk) ==
  IF children = << >> THEN walk
  ELSE TraverseChildren(mapping, Tail(children),
         traverse_message_tree(mapping, Head(children), walk))

\* line 108: messages.sort(key=created_at), equal times in their order
SortedByCreatedAt(messages) ==
  LET Place(i) == 1 + Cardinality({ j \in 1..Len(messages) :
          \/ messages[j].created_at < messages[i].created_at
          \/ messages[j].created_at = messages[i].created_at /\ j < i })
  IN  [p \in 1..Len(messages) |->
         messages[CHOOSE i \in 1..Len(messages) : Place(i) = p]]

\* lines 97-101: the roots in the order of the mapping
RootNodes(mapping) ==
  SelectSeq(Ascending(DOMAIN mapping),
            LAMBDA n : mapping[n].parent \in {NoParent, ClientCreatedRoot})

\* lines 92-110: every root is walked by a call of line 105 that passes no
\* visited set, so each root starts with an empty one (lines 115-116)
extract_messages_from_mapping(mapping) ==
  LET root_nodes == RootNodes(mapping)
      After[i \in 0..Len(root_nodes)] ==
        IF i = 0 THEN << >>
        ELSE traverse_message_tree(mapping, root_nodes[i],
               [visited |-> {}, messages |-> After[i - 1]]).messages
  IN  SortedByCreatedAt(After[Len(root_nodes)])

InitMapping ==
  /\ tag_counts = << >>
  /\ conversation_tags = {}
  /\ keyword_tags = {}
  /\ exclusions = {}
  /\ file_patterns = << >>
  /\ n_adds = 0
  /\ disk = NoDisk
  /\ dialog = NoDialog
  /\ analysis = NotCalled
  /\ \E held \in (SUBSET NodeIds) \ {{}} :
       \E parents \in [held -> {NoParent, ClientCreatedRoot, SomeParent}] :
         \E children \in [held -> ChildSets] :
           /\ \A n \in held : parents[n] \in ParentsAt(n)
           /\ ret = [op |-> "call",
                     args |-> MappingOf(held, parents, children),
                     value |-> << >>]

\* messages = self._extract_messages_from_mapping(mapping)
ExtractMessagesFromMapping ==
  /\ ret.op = "call"
  /\ ret' = [op |-> "extract_messages_from_mapping", args |-> ret.args,
             value |-> extract_messages_from_mapping(ret.args)]
  /\ UNCHANGED <<tag_counts, conversation_tags, keyword_tags, exclusions,
                 file_patterns, n_adds, analysis, disk, dialog>>

NextMapping == ExtractMessagesFromMapping

SpecMapping == InitMapping /\ [][NextMapping]_vars

\* how often the message of a node stands in a list
TimesReturned(messages, n) ==
  Cardinality({ i \in 1..Len(messages) : messages[i].uuid = n })

(***************************************************************************)
(* C30  For any mapping, with several roots, shared children or cyclic     *)
(* child links, the message of one node never appears more than once in    *)
(* the list _extract_messages_from_mapping returns.  The visited set is    *)
(* new for every root (lines 105, 115-116), so a node two roots reach, or  *)
(* a root that is also the child of another root, is appended once for     *)
(* each of them.                                                           *)
(***************************************************************************)
C30_EachMessageOnce ==
  ret.op = "extract_messages_from_mapping" =>
    \A n \in NodeIds : TimesReturned(ret.value, n) <= 1

=============================================================================
